---- MODULE Spec2Model ----
(***************************************************************************)
(* A model of the FindME backend: the submission, user, role-mapping and   *)
(* comment tables, the summary aggregation with its TTL cache, submission  *)
(* listing, role assignment, comment moderation and the role check of the  *)
(* admin-only endpoints.                                                   *)
(*                                                                         *)
(* Encodings.  An Optional[int] column holds NullId (0) for None; ids      *)
(* start at 1.  An Optional list (Submission.images) is <<>> for None and  *)
(* <<list>> for a list.  A Python float that is the quotient of two        *)
(* naturals is kept exact, as the reduced fraction <<n, d>>.               *)
(***************************************************************************)
EXTENDS Integers, Sequences, FiniteSets, TLC

(* ------------------------------ bounds --------------------------------- *)
MaxSubs == 3
MaxImages == 2
MaxUsers == 2
MaxCalls == 2
MaxChanges == 1
MaxTime == 90
MaxTxns == 2

NullId == 0
NoImages == <<>>
SomeImages(list) == <<list>>

Statuses == {"pending", "published", "rejected", "found_alive", "found_dead"}
RoleNames == {"admin", "user"}

VARIABLES
    subs,        \* submission table: id -> [status, images, user_id, created_at]
    scan,        \* order in which the database emits the rows of ORDER BY created_at DESC
    users,       \* user table: id -> [is_active]
    userRoles,   \* committed rows of user_roles: [id, user_id, role]
    ids,         \* next value of each id sequence, and of the object allocator
    cache,       \* _global_cache._data: key -> [expires_at, value]
    now,         \* time.time(), in seconds
    calls,       \* the summary requests: call -> [pc, self, start, fresh, ran, result]
    summary,     \* the value last returned by SubmissionRepository.summarize (<<>> before)
    txns,        \* the requests that write users and user_roles, each in its own transaction
    assigned,    \* per user, the role of the last committed add_role ("none" before)
    listing,     \* the last response of GET /submissions or /submissions/mine (<<>> before)
    walk,        \* a client reading pages 1, 2, ... with one limit: [limit, pages, done]
    comments,    \* comment table: id -> [submission_id, user_id, image_url, status, by]
    reply,       \* the last response of an endpoint that reports here (<<>> before)
    files,       \* files/age_progression: cache file name -> what was written to it
    lastSet      \* in SpecTTL: per key, the time, ttl and value of the last set since the last clear

cacheVars == <<cache, now, calls, summary, lastSet>>
roleVars == <<txns, assigned>>
listVars == <<listing, walk>>
commentVars == <<comments, reply>>
fileVars == <<files>>
vars == <<subs, scan, users, userRoles, ids, cache, now, calls, summary, txns, assigned,
          listing, walk, comments, reply, files, lastSet>>

(* ------------------------------ helpers -------------------------------- *)
Max(a, b) == IF a >= b THEN a ELSE b
Min(a, b) == IF a <= b THEN a ELSE b

RECURSIVE GCD(_, _)
GCD(a, b) == IF b = 0 THEN a ELSE GCD(b, a % b)

\* Python's n / d for naturals n and d > 0, kept exact.
Div(n, d) == LET g == GCD(n, d) IN <<n \div g, d \div g>>
\* The float literal 0.0.
Zero == <<0, 1>>

RECURSIVE SumOver(_, _)
SumOver(S, f) ==
    IF S = {} THEN 0
    ELSE LET x == CHOOSE y \in S : TRUE IN f[x] + SumOver(S \ {x}, f)

\* dict.get(k, default)
DictGet(d, k, default) == IF k \in DOMAIN d THEN d[k] ELSE default

(* ------------------------- summary aggregation ------------------------- *)
\* select(col, count(id)).group_by(col): one entry per value that occurs.
GroupCount(table, col) ==
    [v \in {table[i][col] : i \in DOMAIN table} |->
        Cardinality({i \in DOMAIN table : table[i][col] = v})]

public_status_PublishedOnly == {"published"}
public_status == {"published", "found_alive", "found_dead"}

found_total_Alive_only(status_counts) == DictGet(status_counts, "found_alive", 0)
found_total(status_counts) ==
    DictGet(status_counts, "found_alive", 0) + DictGet(status_counts, "found_dead", 0)

\* The loop over images_lists: a None entry is skipped (continue), every other
\* entry adds its length to img_total and one to items.
images_counted(table) == {i \in DOMAIN table : table[i].images # NoImages}

items_count_AllRows(table) == Cardinality(DOMAIN table)
items_count(table) == Cardinality(images_counted(table))

avg_images(table) ==
    LET img_total == SumOver(images_counted(table),
                             [i \in images_counted(table) |-> Len(table[i].images[1])])
        items == items_count(table)
    IN IF items > 0 THEN Div(img_total, items) ELSE Zero

\* select(count(User.id)).where(User.is_active == True)
count_active_All(usr) == Cardinality(DOMAIN usr)
count_active(usr) == Cardinality({u \in DOMAIN usr : usr[u].is_active})

SubmissionRepository_summarize(table, usr, roles) ==
    LET total == Cardinality(DOMAIN table)
        status_counts == GroupCount(table, "status")
        public_count ==
            Cardinality({i \in DOMAIN table : table[i].status \in public_status})
        users_total == Cardinality(DOMAIN usr)
        active == count_active(usr)
    IN [total_submissions |-> total,
        status_counts |-> status_counts,
        public_counts |-> [public |-> public_count,
                           non_public |-> Max(0, total - public_count)],
        found_rate |-> IF total > 0 THEN Div(found_total(status_counts), total) ELSE Zero,
        found_alive_count |-> DictGet(status_counts, "found_alive", 0),
        found_dead_count |-> DictGet(status_counts, "found_dead", 0),
        avg_images_per_submission |-> avg_images(table),
        users_total |-> users_total,
        active_users |-> active,
        inactive_users |-> Max(0, users_total - active),
        admins_total |->
            Cardinality({r \in roles : r.user_id \in DOMAIN usr /\ r.role = "admin"})]

(* ----------------------------- tables ---------------------------------- *)
ImageLists == {[k \in 1..n |-> k] : n \in 0..MaxImages}
ImageValues == {NoImages} \cup {SomeImages(l) : l \in ImageLists}

\* Rows that differ in what the aggregates read: status and images.
SummaryRows == [status : Statuses, images : ImageValues, user_id : {NullId}, created_at : {1}]
SummaryTables == UNION {[1..n -> SummaryRows] : n \in 0..MaxSubs}

\* The seeded accounts: user 1 is the admin, the others hold role "user".
SeedUsers == [u \in 1..MaxUsers |-> [is_active |-> TRUE]]
SeedUserRoles ==
    {[id |-> u, user_id |-> u, role |-> IF u = 1 THEN "admin" ELSE "user"] : u \in 1..MaxUsers}

\* One seeded, published case owned by the last seeded user.
SeedSubmissions ==
    [i \in {1} |-> [status |-> "published", images |-> SomeImages([k \in 1..MaxImages |-> k]),
                    user_id |-> MaxUsers, created_at |-> 0]]

NewestFirst(table) == [k \in 1..Cardinality(DOMAIN table) |-> Cardinality(DOMAIN table) + 1 - k]

FirstIds(table) ==
    [submission |-> Cardinality(DOMAIN table) + 1, service |-> 1, change |-> 0,
     user |-> MaxUsers + 1, user_roles |-> MaxUsers + 1, comment |-> 1]

IdleCall ==
    [pc |-> "idle", self |-> 0, start |-> 0, end |-> 0, after |-> {}, fresh |-> {},
     ran |-> FALSE, result |-> <<>>]

IdleTxn == [pc |-> "idle", user |-> NullId, is_active |-> <<>>, role |-> <<>>,
            snapshot |-> {}, deleted |-> {}]

NoWalk == [limit |-> 0, pages |-> <<>>, done |-> FALSE]

\* What a fresh process holds besides the tables.
NoRequests ==
    /\ cache = <<>>
    /\ now = 0
    /\ calls = [c \in 1..MaxCalls |-> IdleCall]
    /\ summary = <<>>
    /\ txns = [t \in 1..MaxTxns |-> IdleTxn]
    /\ assigned = [u \in 1..MaxUsers + 1 |-> "none"]
    /\ listing = <<>>
    /\ walk = NoWalk
    /\ comments = <<>>
    /\ reply = <<>>
    /\ files = <<>>
    /\ lastSet = <<>>


(* ------------- SpecSummary: summarize over every small table ----------- *)
InitSummary ==
    /\ subs \in SummaryTables
    /\ scan = NewestFirst(subs)
    /\ users = SeedUsers
    /\ userRoles = SeedUserRoles
    /\ ids = FirstIds(subs)
    /\ NoRequests

RunSummarize ==
    /\ summary' = <<SubmissionRepository_summarize(subs, users, userRoles)>>
    /\ UNCHANGED <<subs, scan, users, userRoles, ids, cache, now, calls, txns, assigned, listVars, commentVars, fileVars, lastSet>>

NextSummary == RunSummarize

SpecSummary == InitSummary /\ [][NextSummary]_vars

(* --------------------- claims on the aggregates ------------------------ *)
CountStatus(st) == Cardinality({i \in DOMAIN subs : subs[i].status = st})
NonNullImages == {i \in DOMAIN subs : subs[i].images # NoImages}
TotalImageCount == SumOver(NonNullImages, [i \in NonNullImages |-> Len(subs[i].images[1])])

\* C4: a summary of the table has found_rate = (found_alive + found_dead) / total,
\* 0.0 for an empty table and whenever no submission has a found_* status, and
\* found_alive_count / found_dead_count are the per-status counts.
C4_FoundRate ==
    summary # <<>> =>
        LET s == summary[1]
            total == Cardinality(DOMAIN subs)
            found == CountStatus("found_alive") + CountStatus("found_dead")
        IN /\ s.total_submissions = total
           /\ s.found_alive_count = CountStatus("found_alive")
           /\ s.found_dead_count = CountStatus("found_dead")
           /\ s.found_rate[2] > 0
           /\ s.found_rate[1] * total = found * s.found_rate[2]
           /\ (total = 0 \/ found = 0) => s.found_rate = Zero

C4_Witness ==
    /\ summary # <<>>
    /\ CountStatus("found_alive") = 1
    /\ CountStatus("found_dead") = 1
    /\ CountStatus("pending") = 1
    /\ summary[1].found_rate = <<2, 3>>

\* C5: avg_images_per_submission is (sum of the lengths of the non-null image
\* lists) / (number of submissions with a non-null image list), and 0.0 when
\* there is none; null image lists count in neither.
C5_AvgImages ==
    summary # <<>> =>
        LET avg == summary[1].avg_images_per_submission
            n == Cardinality(NonNullImages)
        IN /\ avg[2] > 0
           /\ avg[1] * n = TotalImageCount * avg[2]
           /\ n = 0 => avg = Zero

C5_Witness ==
    /\ summary # <<>>
    /\ \E i \in DOMAIN subs : subs[i].images = NoImages
    /\ \E i, j \in DOMAIN subs :
          /\ subs[i].images # NoImages /\ subs[j].images # NoImages
          /\ Len(subs[i].images[1]) = 1 /\ Len(subs[j].images[1]) = 2
    /\ summary[1].avg_images_per_submission = <<3, 2>>

\* C11: in a summary of the table, public_counts.public counts the submissions
\* that are published, found_alive or found_dead, non_public is the total minus
\* that, the two add up to total_submissions, and so do the status counts.
C11_PublicSplit ==
    summary # <<>> =>
        LET s == summary[1]
            public == CountStatus("published") + CountStatus("found_alive")
                      + CountStatus("found_dead")
        IN /\ s.total_submissions = Cardinality(DOMAIN subs)
           /\ s.public_counts.public = public
           /\ s.public_counts.non_public = s.total_submissions - public
           /\ s.public_counts.public + s.public_counts.non_public = s.total_submissions
           /\ SumOver(DOMAIN s.status_counts, s.status_counts) = s.total_submissions
           /\ \A st \in DOMAIN s.status_counts : s.status_counts[st] = CountStatus(st)

C11_Witness ==
    /\ summary # <<>>
    /\ CountStatus("found_dead") = 1
    /\ CountStatus("published") = 1
    /\ CountStatus("rejected") = 1
    /\ summary[1].public_counts = [public |-> 2, non_public |-> 1]


(* ------------------------------ TTL cache ------------------------------ *)
ttl_seconds == 60
\* The clock is observed every half TTL.
TickStep == ttl_seconds \div 2

TTLCache_get_Strict(data, key, t) ==
    IF key \in DOMAIN data /\ data[key].expires_at > t THEN <<data[key].value>> ELSE <<>>

\* TTLCache.get: the value (None is <<>>) and the map it leaves behind.
TTLCache_get(data, key, t) ==
    IF key \in DOMAIN data /\ data[key].expires_at >= t THEN <<data[key].value>> ELSE <<>>

TTLCache_get_data(data, key, t) ==
    IF key \in DOMAIN data /\ ~(data[key].expires_at >= t)
    THEN [k \in DOMAIN data \ {key} |-> data[k]]
    ELSE data

TTLCache_set(data, key, value, ttl, t) ==
    [k \in DOMAIN data \cup {key} |->
        IF k = key THEN [expires_at |-> t + ttl, value |-> value] ELSE data[k]]

\* key = (func.__module__, func.__qualname__, args, tuple(sorted(kwargs.items())));
\* for the bound method summarize, args is (self,): the service object, which
\* defines neither __eq__ nor __hash__ and so is compared by identity.
ttl_cache_key(self) ==
    <<"app.services.submission_service", "SubmissionService.summarize", <<self>>, <<>>>>

\* SubmissionSummaryDTO.from_dict: the DTO carries the fields of the dict.
SubmissionSummaryDTO_from_dict(result) == result

\* The unexpired values the cache holds at time t.
FreshValues(data, t) == {data[k].value : k \in {j \in DOMAIN data : data[j].expires_at >= t}}

Done == {c \in DOMAIN calls : calls[c].pc = "done"}

\* submissions_summary builds its own SubmissionService; async_wrapper looks the
\* key up and returns a hit, or goes on to await the wrapped summarize.
summarize_enter(c) ==
    /\ LET self == ids.service
           key == ttl_cache_key(self)
           cached == TTLCache_get(cache, key, now)
       IN /\ cache' = TTLCache_get_data(cache, key, now)
          /\ calls' = [calls EXCEPT ![c] =
                 [pc |-> IF cached # <<>> THEN "done" ELSE "computing",
                  self |-> self, start |-> now, end |-> now, after |-> Done,
                  fresh |-> FreshValues(cache, now), ran |-> FALSE, result |-> cached]]
    /\ ids' = [ids EXCEPT !.service = @ + 1]

\* GET /submissions/summary, once its dependencies are resolved.
SummaryStart(c) ==
    /\ calls[c].pc = "idle"
    /\ summarize_enter(c)
    /\ UNCHANGED <<subs, scan, users, userRoles, now, summary, txns, assigned, listVars, commentVars, fileVars, lastSet>>

SummaryFinish_Writes(c) ==
    /\ calls[c].pc = "computing"
    /\ calls' = [calls EXCEPT ![c].pc = "done", ![c].ran = TRUE, ![c].end = now,
                              ![c].result = <<SubmissionRepository_summarize(subs, users, userRoles)>>]
    /\ subs' = [i \in DOMAIN subs |-> [subs[i] EXCEPT !.status = "rejected"]]
    /\ UNCHANGED <<scan, users, userRoles, ids, cache, now, summary, txns, assigned,
                   listVars, commentVars, fileVars, lastSet>>

\* The awaited summarize returns; the result is stored under the key and returned.
SummaryFinish(c) ==
    /\ calls[c].pc = "computing"
    /\ LET dict == SubmissionRepository_summarize(subs, users, userRoles)
           result == SubmissionSummaryDTO_from_dict(dict)
       IN /\ cache' = TTLCache_set(cache, ttl_cache_key(calls[c].self), result, ttl_seconds, now)
          /\ calls' = [calls EXCEPT ![c].pc = "done", ![c].ran = TRUE,
                                    ![c].end = now, ![c].result = <<result>>]
          /\ summary' = <<dict>>
    /\ UNCHANGED <<subs, scan, users, userRoles, ids, now, txns, assigned, listVars, commentVars, fileVars, lastSet>>

Tick ==
    /\ now + TickStep <= MaxTime
    /\ now' = now + TickStep
    /\ UNCHANGED <<subs, scan, users, userRoles, ids, cache, calls, summary, txns, assigned, listVars, commentVars, fileVars, lastSet>>

(* ------------------- committed changes of the tables ------------------- *)
Remove(seq, x) == SelectSeq(seq, LAMBDA y : y # x)

\* POST /submissions: SubmissionService.create stores status "pending".
CreateSubmission(u) ==
    /\ ids.change < MaxChanges
    /\ Cardinality(DOMAIN subs) < MaxSubs
    /\ LET id == ids.submission
       IN /\ subs' = [i \in DOMAIN subs \cup {id} |->
                        IF i = id
                        THEN [status |-> "pending",
                              images |-> SomeImages([k \in 1..MaxImages |-> k]),
                              user_id |-> u, created_at |-> now]
                        ELSE subs[i]]
          /\ scan' = <<id>> \o scan
    /\ ids' = [ids EXCEPT !.submission = @ + 1, !.change = @ + 1]
    /\ UNCHANGED <<users, userRoles, cache, now, calls, summary, txns, assigned, listVars, commentVars, fileVars, lastSet>>

\* PUT /submissions/{id} carrying a status: SubmissionRepository.update.
UpdateStatus(i, st) ==
    /\ ids.change < MaxChanges
    /\ i \in DOMAIN subs
    /\ subs' = [subs EXCEPT ![i].status = st]
    /\ ids' = [ids EXCEPT !.change = @ + 1]
    /\ UNCHANGED <<scan, users, userRoles, cache, now, calls, summary, txns, assigned, listVars, commentVars, fileVars, lastSet>>

\* DELETE /submissions/{id}: SubmissionRepository.delete.
DeleteSubmission(i) ==
    /\ ids.change < MaxChanges
    /\ i \in DOMAIN subs
    /\ subs' = [j \in DOMAIN subs \ {i} |-> subs[j]]
    /\ scan' = Remove(scan, i)
    /\ ids' = [ids EXCEPT !.change = @ + 1]
    /\ UNCHANGED <<users, userRoles, cache, now, calls, summary, txns, assigned, listVars, commentVars, fileVars, lastSet>>

\* PATCH /admin/users/{id} carrying is_active: UserRepository.update_user.
SetUserActive(u, b) ==
    /\ ids.change < MaxChanges
    /\ u \in DOMAIN users
    /\ users' = [users EXCEPT ![u].is_active = b]
    /\ ids' = [ids EXCEPT !.change = @ + 1]
    /\ UNCHANGED <<subs, scan, userRoles, cache, now, calls, summary, txns, assigned, listVars, commentVars, fileVars, lastSet>>

(* ------ SpecCache: summary requests, the clock and table changes -------- *)
InitCache ==
    /\ subs = SeedSubmissions
    /\ scan = NewestFirst(subs)
    /\ users = SeedUsers
    /\ userRoles = SeedUserRoles
    /\ ids = FirstIds(subs)
    /\ NoRequests

NextCache ==
    \/ \E c \in 1..MaxCalls : SummaryStart(c)
    \/ \E c \in 1..MaxCalls : SummaryFinish(c)
    \/ Tick
    \/ \E u \in DOMAIN users : CreateSubmission(u)
    \/ \E i \in DOMAIN subs, st \in Statuses : UpdateStatus(i, st)
    \/ \E i \in DOMAIN subs : DeleteSubmission(i)
    \/ \E u \in DOMAIN users, b \in BOOLEAN : SetUserActive(u, b)

SpecCache == InitCache /\ [][NextCache]_vars

\* C1: of two summary calls, the first of which computed the summary and
\* returned before the second began, with nothing else calling and the second
\* beginning within 60 seconds of the first's return, the second returns the
\* first's summary and runs no aggregation query.
C1_SecondCallCached ==
    \A c1, c2 \in Done :
        ( /\ c1 # c2
          /\ calls[c1].ran
          /\ c1 \in calls[c2].after
          /\ calls[c2].start - calls[c1].end <= ttl_seconds
          /\ \A c3 \in DOMAIN calls \ {c1, c2} : calls[c3].pc = "idle" )
        => /\ calls[c2].result = calls[c1].result
           /\ ~calls[c2].ran

\* C2: a summary call that looks the cache up while it holds an unexpired
\* summary receives a cached value and runs no aggregation query.
C2_FreshEntryIsServed ==
    \A c \in DOMAIN calls :
        (calls[c].pc # "idle" /\ calls[c].fresh # {})
        => /\ calls[c].pc = "done"
           /\ ~calls[c].ran
           /\ calls[c].result \in {<<v>> : v \in calls[c].fresh}

(* --------------------------- role assignment --------------------------- *)
AssignableRoles == RoleNames \cup {"moderator"}

RolesOf(rows, u) == {r \in rows : r.user_id = u}

\* Rows another open transaction has deleted and not yet committed: their row
\* locks make a DELETE that targets them wait.
LockedBy(t) == IF txns[t].pc = "flush" THEN txns[t].deleted ELSE {}
LockedByOthers(t) == UNION {LockedBy(o) : o \in DOMAIN txns \ {t}}

\* Requests take the transaction slots in order (the slots are interchangeable).
NextSlot(t) == \A o \in 1..(t - 1) : txns[o].pc # "idle"

\* uq_user_roles_user: UniqueConstraint("user_id").  The INSERT of the flush
\* fails when a committed row of the user is left that this transaction has
\* not deleted.
UniqueViolation_Unchecked(rows, deleted, u) == FALSE
UniqueViolation(rows, deleted, u) == \E r \in rows : r.user_id = u /\ r \notin deleted

\* PATCH /admin/users/{user_id}: get_by_id finds the user; the payload may carry
\* is_active and is_admin.
admin_update_user(t, u, is_active, is_admin) ==
    /\ txns[t].pc = "idle"
    /\ NextSlot(t)
    /\ u \in DOMAIN users
    /\ txns' = [txns EXCEPT ![t] =
          [pc |-> IF is_admin = <<>> THEN "flush" ELSE "add_role",
           user |-> u, is_active |-> is_active,
           role |-> IF is_admin = <<>> THEN <<>>
                    ELSE IF is_admin[1] THEN <<"admin">> ELSE <<"user">>,
           snapshot |-> {}, deleted |-> {}]]
    /\ UNCHANGED <<subs, scan, users, userRoles, ids, cache, now, calls, summary, assigned, listVars, commentVars, fileVars, lastSet>>

\* PUT /admin/users/{user_id}/role: get_by_id finds the user; get_or_create_role.
set_user_role(t, u, role_name) ==
    /\ txns[t].pc = "idle"
    /\ NextSlot(t)
    /\ u \in DOMAIN users
    /\ txns' = [txns EXCEPT ![t] =
          [pc |-> "add_role", user |-> u, is_active |-> <<>>, role |-> <<role_name>>,
           snapshot |-> {}, deleted |-> {}]]
    /\ UNCHANGED <<subs, scan, users, userRoles, ids, cache, now, calls, summary, assigned, listVars, commentVars, fileVars, lastSet>>

\* add_role, the DELETE statement begins: under READ COMMITTED it targets the
\* rows of the user that are committed now.
add_role_delete_begin(t) ==
    /\ txns[t].pc = "add_role"
    /\ txns' = [txns EXCEPT ![t].pc = "deleting",
                            ![t].snapshot = RolesOf(userRoles, txns[t].user)]
    /\ UNCHANGED <<subs, scan, users, userRoles, ids, cache, now, calls, summary, assigned, listVars, commentVars, fileVars, lastSet>>

\* add_role, the DELETE statement ends: it has waited for the row locks of
\* other transactions; a targeted row that was deleted meanwhile is skipped and
\* a row committed meanwhile is not seen.  session.add leaves the new mapping
\* pending until the flush of the commit.
add_role_delete_end(t) ==
    /\ txns[t].pc = "deleting"
    /\ txns[t].snapshot \cap LockedByOthers(t) = {}
    /\ txns' = [txns EXCEPT ![t].pc = "flush",
                            ![t].deleted = txns[t].snapshot \cap userRoles]
    /\ UNCHANGED <<subs, scan, users, userRoles, ids, cache, now, calls, summary, assigned, listVars, commentVars, fileVars, lastSet>>

\* get_db: "async with AsyncSessionLocal() as session" closes the session when
\* the request raises; what update_user flushed is rolled back with it.
get_db_close_KeepsFlushed(usr, txn) ==
    IF txn.is_active = <<>> THEN usr
    ELSE [usr EXCEPT ![txn.user].is_active = txn.is_active[1]]
get_db_close(usr, txn) == usr

\* db.commit(): the flush INSERTs the pending mapping; on IntegrityError the
\* request fails and the session closes without committing anything.
commit(t) ==
    /\ txns[t].pc = "flush"
    /\ LET u == txns[t].user
           adds == txns[t].role # <<>>
       IN IF adds /\ UniqueViolation(userRoles, txns[t].deleted, u)
          THEN /\ txns' = [txns EXCEPT ![t].pc = "failed"]
               /\ users' = get_db_close(users, txns[t])
               /\ UNCHANGED <<userRoles, ids, assigned, listVars, commentVars, fileVars>>
          ELSE /\ txns' = [txns EXCEPT ![t].pc = "committed"]
               /\ users' = IF txns[t].is_active = <<>> THEN users
                           ELSE [users EXCEPT ![u].is_active = txns[t].is_active[1]]
               /\ userRoles' =
                     IF adds
                     THEN (userRoles \ txns[t].deleted) \cup
                          {[id |-> ids.user_roles, user_id |-> u, role |-> txns[t].role[1]]}
                     ELSE userRoles
               /\ ids' = IF adds THEN [ids EXCEPT !.user_roles = @ + 1] ELSE ids
               /\ assigned' = IF adds THEN [assigned EXCEPT ![u] = txns[t].role[1]]
                              ELSE assigned
    /\ UNCHANGED <<subs, scan, cache, now, calls, summary, listVars, commentVars, fileVars, lastSet>>

\* POST /auth/register: create_user, add_role(user.id, "user"), commit.  The new
\* user's id is known to no other transaction before the commit.
register ==
    /\ ids.user <= MaxUsers + 1
    /\ LET u == ids.user
       IN /\ users' = [i \in DOMAIN users \cup {u} |->
                         IF i = u THEN [is_active |-> TRUE] ELSE users[i]]
          /\ userRoles' = (userRoles \ RolesOf(userRoles, u)) \cup
                          {[id |-> ids.user_roles, user_id |-> u, role |-> "user"]}
          /\ assigned' = [assigned EXCEPT ![u] = "user"]
    /\ ids' = [ids EXCEPT !.user = @ + 1, !.user_roles = @ + 1]
    /\ UNCHANGED <<subs, scan, cache, now, calls, summary, txns, listVars, commentVars, fileVars, lastSet>>

(* -------- SpecRoles: concurrent requests that assign roles ------------- *)
InitRoles ==
    /\ subs = SeedSubmissions
    /\ scan = NewestFirst(subs)
    /\ users = SeedUsers
    /\ userRoles = SeedUserRoles
    /\ ids = FirstIds(subs)
    /\ NoRequests

NextRoles ==
    \/ \E t \in DOMAIN txns, u \in DOMAIN users, r \in {<<>>, <<TRUE>>, <<FALSE>>} :
            admin_update_user(t, u, <<>>, r)
    \/ \E t \in DOMAIN txns, u \in DOMAIN users, r \in AssignableRoles : set_user_role(t, u, r)
    \/ \E t \in DOMAIN txns : add_role_delete_begin(t)
    \/ \E t \in DOMAIN txns : add_role_delete_end(t)
    \/ \E t \in DOMAIN txns : commit(t)
    \/ register

SpecRoles == InitRoles /\ [][NextRoles]_vars

\* C3: every user has at most one row in user_roles, and a user whose role was
\* assigned by a committed request has exactly one row, naming the role of
\* the last such request.
C3_SingleRole ==
    \A u \in DOMAIN users :
        /\ Cardinality(RolesOf(userRoles, u)) <= 1
        /\ assigned[u] # "none" =>
              /\ Cardinality(RolesOf(userRoles, u)) = 1
              /\ \A r \in RolesOf(userRoles, u) : r.role = assigned[u]

\* A seeded holder of "user" was made admin while a concurrent assignment to
\* the same user failed on the unique constraint.
C3_Witness ==
    /\ assigned[MaxUsers] = "admin"
    /\ {r.role : r \in RolesOf(userRoles, MaxUsers)} = {"admin"}
    /\ \E t1, t2 \in DOMAIN txns :
          /\ txns[t1].pc = "committed" /\ txns[t1].user = MaxUsers
          /\ txns[t2].pc = "failed" /\ txns[t2].user = MaxUsers

(* ---- SpecAtomic: admin updates of is_active and role, and registration ---- *)
InitAtomic == InitRoles

\* The concurrent admin updates target the same seeded user, so that one of
\* them can fail on the unique constraint after flushing is_active.
NextAtomic ==
    \/ \E t \in DOMAIN txns, a \in {<<>>, <<FALSE>>}, r \in {<<>>, <<TRUE>>} :
            admin_update_user(t, MaxUsers, a, r)
    \/ \E t \in DOMAIN txns : add_role_delete_begin(t)
    \/ \E t \in DOMAIN txns : add_role_delete_end(t)
    \/ \E t \in DOMAIN txns : commit(t)
    \/ register

SpecAtomic == InitAtomic /\ [][NextAtomic]_vars

\* The step is the commit of request t, and the committed tables show all of
\* its writes: the is_active it carried and the one mapping of the role it carried.
CommitsWhole(t) ==
    /\ txns[t].pc = "flush"
    /\ txns'[t].pc = "committed"
    /\ LET u == txns[t].user
       IN /\ txns[t].is_active # <<>> => users'[u].is_active = txns[t].is_active[1]
          /\ txns[t].role # <<>> =>
                {r.role : r \in RolesOf(userRoles', u)} = {txns[t].role[1]}
          /\ \A o \in DOMAIN users \ {u} :
                users'[o] = users[o] /\ RolesOf(userRoles', o) = RolesOf(userRoles, o)

\* The step is a registration: the new user and its single "user" mapping
\* appear together and no other row changes.
RegistersWhole ==
    /\ ids'.user = ids.user + 1
    /\ DOMAIN users' = DOMAIN users \cup {ids.user}
    /\ {r.role : r \in RolesOf(userRoles', ids.user)} = {"user"}
    /\ \A o \in DOMAIN users :
          users'[o] = users[o] /\ RolesOf(userRoles', o) = RolesOf(userRoles, o)

\* C18: the committed users and role mappings change only in the step that
\* commits a request, and then by all of the request's writes at once; a
\* request that fails changes neither table; and every committed user always
\* has exactly one role mapping, so a registered user never lacks its mapping
\* and a failed admin update leaves neither is_active changed nor the user
\* without a mapping.
C18_AtomicWrites ==
    /\ [](\A u \in DOMAIN users : Cardinality(RolesOf(userRoles, u)) = 1)
    /\ [][ /\ (users' # users \/ userRoles' # userRoles) =>
                (RegistersWhole \/ \E t \in DOMAIN txns : CommitsWhole(t))
           /\ (\E t \in DOMAIN txns : txns[t].pc # "failed" /\ txns'[t].pc = "failed") =>
                (users' = users /\ userRoles' = userRoles) ]_vars

\* An admin update that carried is_active = false and a role change failed on
\* the unique constraint: the user is still active and still has its one
\* mapping, and a user created by registration has its "user" mapping.
C18_Witness ==
    /\ \E t \in DOMAIN txns :
          /\ txns[t].pc = "failed"
          /\ txns[t].is_active = <<FALSE>>
          /\ txns[t].role # <<>>
          /\ users[txns[t].user].is_active
          /\ Cardinality(RolesOf(userRoles, txns[t].user)) = 1
    /\ \E u \in DOMAIN users :
          u > MaxUsers /\ {r.role : r \in RolesOf(userRoles, u)} = {"user"}

(* ------------- SpecEmail: concurrent registrations by email ------------ *)
\* Addresses are numbered; the seeded user u holds address u.
Emails == 1..(MaxUsers + 2)

WithEmails(usr) == [u \in DOMAIN usr |-> [is_active |-> usr[u].is_active, email |-> u]]

IdleRegister == [pc |-> "idle", user |-> NullId, email |-> NullId, code |-> 0]

\* get_by_email: SELECT ... WHERE email = :email over the committed rows.
get_by_email(usr, email) == {u \in DOMAIN usr : usr[u].email = email}

\* uq_user_email / unique=True: the INSERT fails when a committed row holds the
\* address.
uq_user_email_Absent(usr, email) == FALSE
uq_user_email(usr, email) == get_by_email(usr, email) # {}

\* Rows inserted by open transactions: an INSERT of the same address waits for
\* the transaction that holds the index entry to end.
PendingEmails(t) == {txns[o].email : o \in {x \in DOMAIN txns \ {t} : txns[x].pc = "inserted"}}

\* POST /auth/register, the existence check: 400 when a user holds the address.
register_check(t, email) ==
    /\ txns[t].pc = "idle"
    /\ NextSlot(t)
    /\ txns' = [txns EXCEPT ![t] =
          IF get_by_email(users, email) # {}
          THEN [pc |-> "rejected", user |-> NullId, email |-> email, code |-> 400]
          ELSE [pc |-> "create_user", user |-> NullId, email |-> email, code |-> 0]]
    /\ UNCHANGED <<subs, scan, users, userRoles, ids, cacheVars, assigned, listVars, commentVars, fileVars>>

\* create_user: session.add and flush.  The INSERT is not committed yet; on a
\* unique violation the IntegrityError is not handled and the request ends
\* with 500.
register_create_user(t) ==
    /\ txns[t].pc = "create_user"
    /\ txns[t].email \notin PendingEmails(t)
    /\ IF uq_user_email(users, txns[t].email)
       THEN /\ txns' = [txns EXCEPT ![t].pc = "failed", ![t].code = 500]
            /\ UNCHANGED ids
       ELSE /\ txns' = [txns EXCEPT ![t].pc = "inserted", ![t].user = ids.user]
            /\ ids' = [ids EXCEPT !.user = @ + 1]
    /\ UNCHANGED <<subs, scan, users, userRoles, cacheVars, assigned, listVars, commentVars, fileVars>>

\* get_or_create_role("user"), add_role and db.commit(): the user and its
\* mapping become visible together.
register_commit(t) ==
    /\ txns[t].pc = "inserted"
    /\ LET u == txns[t].user
       IN /\ users' = [i \in DOMAIN users \cup {u} |->
                         IF i = u THEN [is_active |-> TRUE, email |-> txns[t].email]
                         ELSE users[i]]
          /\ userRoles' = (userRoles \ RolesOf(userRoles, u)) \cup
                          {[id |-> ids.user_roles, user_id |-> u, role |-> "user"]}
    /\ ids' = [ids EXCEPT !.user_roles = @ + 1]
    /\ txns' = [txns EXCEPT ![t].pc = "committed", ![t].code = 200]
    /\ UNCHANGED <<subs, scan, cacheVars, assigned, listVars, commentVars, fileVars>>

InitEmail ==
    /\ subs = SeedSubmissions
    /\ scan = NewestFirst(subs)
    /\ users = WithEmails(SeedUsers)
    /\ userRoles = SeedUserRoles
    /\ ids = FirstIds(subs)
    /\ cache = <<>>
    /\ now = 0
    /\ calls = [c \in 1..MaxCalls |-> IdleCall]
    /\ summary = <<>>
    /\ txns = [t \in 1..(MaxTxns + 1) |-> IdleRegister]
    /\ assigned = [u \in 1..MaxUsers + 1 |-> "none"]
    /\ listing = <<>>
    /\ walk = NoWalk
    /\ comments = <<>>
    /\ reply = <<>>
    /\ files = <<>>
    /\ lastSet = <<>>

NextEmail ==
    \/ \E t \in DOMAIN txns, e \in Emails : register_check(t, e)
    \/ \E t \in DOMAIN txns : register_create_user(t)
    \/ \E t \in DOMAIN txns : register_commit(t)

SpecEmail == InitEmail /\ [][NextEmail]_vars

\* C19: no two committed users hold the same email; a registration whose
\* email a committed user already holds at the existence check ends with 400
\* and changes neither the users nor the role mappings; and of the
\* registrations for one email at most one commits.
C19_UniqueEmails ==
    /\ [](\A u1, u2 \in DOMAIN users : users[u1].email = users[u2].email => u1 = u2)
    /\ [](\A t1, t2 \in DOMAIN txns :
            (/\ txns[t1].pc = "committed" /\ txns[t2].pc = "committed"
             /\ txns[t1].email = txns[t2].email) => t1 = t2)
    /\ [][\A t \in DOMAIN txns :
            (/\ txns[t].pc = "idle" /\ txns'[t].pc # "idle"
             /\ get_by_email(users, txns'[t].email) # {})
            => /\ txns'[t].pc = "rejected" /\ txns'[t].code = 400
               /\ users' = users /\ userRoles' = userRoles /\ ids' = ids]_vars

\* Two registrations for a new email both passed the existence check; one
\* committed and the other failed at its INSERT, and a later registration for
\* the same email was rejected with 400: one user holds the email.
C19_Witness ==
    \E t1, t2, t3 \in DOMAIN txns :
        /\ txns[t1].pc = "committed"
        /\ txns[t2].pc = "failed" /\ txns[t2].email = txns[t1].email
        /\ txns[t3].pc = "rejected" /\ txns[t3].email = txns[t1].email
        /\ Cardinality(get_by_email(users, txns[t1].email)) = 1
        /\ Cardinality(RolesOf(userRoles, txns[t1].user)) = 1

(* -------------------------- submission listing ------------------------- *)
MaxLimit == 1000
MaxStamps == 2

\* SELECT ... LIMIT limit OFFSET offset over the rows in the order emitted.
SqlLimitOffset(rows, limit, offset) == SubSeq(rows, offset + 1, Min(Len(rows), offset + limit))

\* safe_limit = max(0, min(limit, 1000)), in the service and again in the repository.
safe_limit(limit) == Max(0, Min(limit, MaxLimit))

SubmissionRepository_list(rows, limit, offset) ==
    SqlLimitOffset(rows, safe_limit(limit), offset)

SubmissionRepository_list_by_user(rows, table, user_id, limit, offset) ==
    SqlLimitOffset(SelectSeq(rows, LAMBDA i : table[i].user_id = user_id),
                   safe_limit(limit), offset)

SubmissionService_list(rows, limit, offset) ==
    SubmissionRepository_list(rows, safe_limit(limit), offset)

SubmissionService_list_by_user(rows, table, user_id, limit, offset) ==
    SubmissionRepository_list_by_user(rows, table, user_id, safe_limit(limit), offset)

\* The controller's normalisation: page = max(1, page), limit = max(1, min(limit, 1000)).
clamp_page(page) == Max(1, page)
clamp_limit_NoFloor(limit) == Max(0, Min(limit, MaxLimit))
clamp_limit(limit) == Max(1, Min(limit, MaxLimit))

\* GET /submissions
list_submissions(page, limit) ==
    /\ LET p == clamp_page(page)
           l == clamp_limit(limit)
           offset == (p - 1) * l
       IN listing' = <<[user |-> NullId, page |-> page, limit |-> limit,
                        sql_limit |-> safe_limit(safe_limit(l)), sql_offset |-> offset,
                        items |-> SubmissionService_list(scan, l, offset)]>>
    /\ UNCHANGED <<subs, scan, users, userRoles, ids, cacheVars, roleVars, walk, commentVars, fileVars>>

\* GET /submissions/mine, for the authenticated active user u
list_my_submissions(u, page, limit) ==
    /\ u \in DOMAIN users
    /\ users[u].is_active
    /\ LET p == clamp_page(page)
           l == clamp_limit(limit)
           offset == (p - 1) * l
       IN listing' = <<[user |-> u, page |-> page, limit |-> limit,
                        sql_limit |-> safe_limit(safe_limit(l)), sql_offset |-> offset,
                        items |-> SubmissionService_list_by_user(scan, subs, u, l, offset)]>>
    /\ UNCHANGED <<subs, scan, users, userRoles, ids, cacheVars, roleVars, walk, commentVars, fileVars>>

\* ORDER BY created_at DESC names no tie-breaker: rows with equal created_at may
\* be emitted in either order, and the order may differ from query to query.
Reorder(k) ==
    /\ k \in 1..(Len(scan) - 1)
    /\ subs[scan[k]].created_at = subs[scan[k + 1]].created_at
    /\ scan' = [scan EXCEPT ![k] = scan[k + 1], ![k + 1] = scan[k]]
    /\ UNCHANGED <<subs, users, userRoles, ids, cacheVars, roleVars, listVars, commentVars, fileVars>>

\* A client reads page 1, 2, ... of GET /submissions with one limit, until a
\* page comes back short.
ReadNextPage(limit) ==
    /\ ~walk.done
    /\ Len(walk.pages) <= MaxSubs
    /\ walk.pages = <<>> \/ walk.limit = limit
    /\ LET page == Len(walk.pages) + 1
           l == clamp_limit(limit)
           items == SubmissionService_list(scan, l, (clamp_page(page) - 1) * l)
       IN walk' = [limit |-> limit, pages |-> Append(walk.pages, items),
                   done |-> Len(items) < l]
    /\ UNCHANGED <<subs, scan, users, userRoles, ids, cacheVars, roleVars, listing, commentVars, fileVars>>

\* Tables whose rows were inserted in id order, several of them possibly in
\* the same instant, and one table larger than the cap on limit.
StampsOf(n) == {f \in [1..n -> 1..MaxStamps] : \A i, j \in 1..n : i < j => f[i] <= f[j]}
ListTable(n, stamp) ==
    [i \in 1..n |-> [status |-> "published", images |-> SomeImages(<<>>),
                     user_id |-> IF i = 1 THEN NullId ELSE (i % MaxUsers) + 1,
                     created_at |-> stamp[i]]]
SmallTables == UNION {{ListTable(n, f) : f \in StampsOf(n)} : n \in 0..MaxSubs}
BigRows == MaxLimit + 1
BigTable == ListTable(BigRows, [i \in 1..BigRows |-> i])

Pages == {-1, 0, 1, 2}
Limits == {0, 1, 2, 5 * MaxLimit}

(* ----------- SpecList: listing requests over a fixed table ------------- *)
InitList ==
    /\ subs \in SmallTables \cup {BigTable}
    /\ scan = NewestFirst(subs)
    /\ users = SeedUsers
    /\ userRoles = SeedUserRoles
    /\ ids = FirstIds(subs)
    /\ NoRequests

NextList ==
    \/ \E page \in Pages, limit \in Limits : list_submissions(page, limit)
    \/ \E u \in DOMAIN users, page \in Pages, limit \in Limits : list_my_submissions(u, page, limit)
    \/ \E k \in 1..MaxSubs : Reorder(k)

SpecList == InitList /\ [][NextList]_vars

(* ------- SpecPages: a client reading page after page of a table -------- *)
InitPages ==
    /\ subs \in SmallTables
    /\ scan = NewestFirst(subs)
    /\ users = SeedUsers
    /\ userRoles = SeedUserRoles
    /\ ids = FirstIds(subs)
    /\ NoRequests

NextPages ==
    \/ \E limit \in {1, 2} : ReadNextPage(limit)
    \/ \E k \in 1..MaxSubs : Reorder(k)

SpecPages == InitPages /\ [][NextPages]_vars

\* The rows a listing can return: all of them, or those of the caller.
Listable(r) == {i \in DOMAIN subs : r.user = NullId \/ subs[i].user_id = r.user}

\* C6: for every page and limit the LIMIT sent to the database is
\* max(1, min(limit, 1000)), the OFFSET is (max(1, page) - 1) * LIMIT and is not
\* negative, and the response holds min(LIMIT, rows past the offset) items, so
\* never more than 1000 and never more than 1 for a limit below 1.
C6_Pagination ==
    listing # <<>> =>
        LET r == listing[1]
            n == Cardinality(Listable(r))
        IN /\ r.sql_limit >= 1 /\ r.sql_limit <= 1000
           /\ (r.limit >= 1 /\ r.limit <= 1000) => r.sql_limit = r.limit
           /\ r.limit < 1 => r.sql_limit = 1
           /\ r.limit > 1000 => r.sql_limit = 1000
           /\ r.sql_offset >= 0
           /\ r.page >= 1 => r.sql_offset = (r.page - 1) * r.sql_limit
           /\ r.page < 1 => r.sql_offset = 0
           /\ Len(r.items) <= r.sql_limit
           /\ Len(r.items) = (IF n - r.sql_offset < 0 THEN 0
                              ELSE IF n - r.sql_offset < r.sql_limit THEN n - r.sql_offset
                              ELSE r.sql_limit)
           /\ \A k \in 1..Len(r.items) : r.items[k] \in Listable(r)

\* limit=5000 over more than 1000 rows returned exactly 1000 of them.
C6_Witness ==
    /\ listing # <<>>
    /\ listing[1].limit = 5000
    /\ Cardinality(DOMAIN subs) > 1000
    /\ Len(listing[1].items) = 1000

RECURSIVE Concat(_)
Concat(seqs) == IF seqs = <<>> THEN <<>> ELSE Head(seqs) \o Concat(Tail(seqs))

\* C7: a client that has read the pages 1, 2, ... of an unchanged table with
\* one limit has seen every submission exactly once, newest first.
C7_PagesPartitionTable ==
    walk.done =>
        LET all == Concat(walk.pages)
        IN /\ Len(all) = Cardinality(DOMAIN subs)
           /\ {all[k] : k \in 1..Len(all)} = DOMAIN subs
           /\ \A j, k \in 1..Len(all) :
                j < k => subs[all[j]].created_at >= subs[all[k]].created_at

(* --------------------------- authentication ---------------------------- *)
MaxComments == 2

\* The Authorization header: absent (<<>>), or a bearer token this server
\* signed, of type "access" or "refresh", whose sub is a user id.
TokenTypes == {"access", "refresh"}
Credentials == {<<>>} \cup {<<t>> : t \in [type : TokenTypes, sub : 1..MaxUsers]}

HTTPException(status_code) == [code |-> status_code, user |-> NullId, roles |-> {}]

verify_token_AnyType(token, token_type) == <<token>>

\* verify_token: raises JWTError (<<>>) unless payload["type"] is token_type.
verify_token(token, token_type) == IF token.type # token_type THEN <<>> ELSE <<token>>

\* get_current_user: the UserDTO of the caller (code 200), or the exception raised.
get_current_user(credentials, usr, roles) ==
    IF credentials = <<>> THEN HTTPException(401)
    ELSE LET payload == verify_token(credentials[1], "access")
         IN IF payload = <<>> THEN HTTPException(401)
            ELSE LET user_id == payload[1].sub
                 IN IF user_id = NullId THEN HTTPException(401)
                    ELSE IF user_id \notin DOMAIN usr \/ ~usr[user_id].is_active
                    THEN HTTPException(401)
                    ELSE [code |-> 200, user |-> user_id,
                          roles |-> {r.role : r \in {x \in roles : x.user_id = user_id}}]

\* The dependency role_required(*roles) builds, applied to what get_current_user gave.
role_required(roles, user) ==
    IF user.code # 200 THEN user
    ELSE IF roles = {} THEN user
    ELSE IF roles \cap user.roles = {} THEN HTTPException(403)
    ELSE user

\* A callable as the framework sees it: the parameters it declares with a
\* Depends(...) default, and __wrapped__ (<<>> when it has none).
Depends_get_db == [dep |-> "get_db", roles |-> {}]
Depends_get_current_user == [dep |-> "get_current_user", roles |-> {}]
Depends_role_required(roles) == [dep |-> "role_required", roles |-> roles]

Callable(params) == [params |-> params, wrapped |-> <<>>]

\* functools.wraps(func)(wrapper): the wrapper with __wrapped__ = func.
wraps(wrapper, func) == [params |-> wrapper.params, wrapped |-> <<func>>]

\* require_roles(*roles)(func): async_wrapper(*args, _user=Depends(dep), **kwargs),
\* decorated with @wraps(func).
require_roles(roles, func) ==
    wraps(Callable([_user |-> Depends_role_required(roles)]), func)

\* inspect.signature(call), by which the framework finds the dependencies of an
\* endpoint: it follows __wrapped__ to the innermost callable.
RECURSIVE inspect_signature(_)
inspect_signature(call) ==
    IF call.wrapped # <<>> THEN inspect_signature(call.wrapped[1]) ELSE call.params

\* The framework resolves every dependency of the signature before it calls the
\* endpoint; the first exception is the response.
solve_dependencies(call, credentials, usr, roles) ==
    LET sig == inspect_signature(call)
        user == get_current_user(credentials, usr, roles)
        values == [p \in DOMAIN sig |->
                     IF sig[p].dep = "get_current_user" THEN user
                     ELSE IF sig[p].dep = "role_required" THEN role_required(sig[p].roles, user)
                     ELSE [code |-> 200, user |-> NullId, roles |-> {}]]
        raised == {values[p].code : p \in DOMAIN sig} \ {200}
    IN [code |-> IF raised = {} THEN 200 ELSE CHOOSE x \in raised : TRUE,
        values |-> values,
        role_checked |-> \E p \in DOMAIN sig : sig[p].dep = "role_required"]

list_comments_endpoint == Callable([db |-> Depends_get_db])
create_comment_endpoint == Callable([db |-> Depends_get_db, user |-> Depends_get_current_user])
approve_comment_endpoint == require_roles({"admin"}, Callable([db |-> Depends_get_db]))
reject_comment_endpoint == require_roles({"admin"}, Callable([db |-> Depends_get_db]))
submissions_summary_endpoint == require_roles({"admin"}, Callable([db |-> Depends_get_db]))

\* Who sends the request, as get_current_user would tell at that moment.
Caller(credentials) == get_current_user(credentials, users, userRoles)

(* ------------------------------ comments ------------------------------- *)
\* An upload's content type; image.content_type.startswith("image/").
ContentTypes == {"image/png", "text/plain"}
is_image_Any(content_type) == TRUE
is_image(content_type) == content_type = "image/png"

\* CommentRepository.list_by_submission: the ids of the rows selected.
CommentRepository_list_by_submission(table, submission_id, status) ==
    {i \in DOMAIN table :
        /\ table[i].submission_id = submission_id
        /\ status # <<>> => table[i].status = status[1]}

list_by_submission_public_Unfiltered(table, submission_id) ==
    CommentRepository_list_by_submission(table, submission_id, <<>>)

CommentService_list_by_submission_public(table, submission_id) ==
    CommentRepository_list_by_submission(table, submission_id, <<"approved">>)

Response(endpoint, credentials, arg, status_code, body) ==
    <<[endpoint |-> endpoint, who |-> Caller(credentials), arg |-> arg,
       code |-> status_code, body |-> body]>>

\* GET /comments?submission_id=
list_comments(submission_id) ==
    /\ reply' = Response("list_comments", <<>>, submission_id, 200,
                         CommentService_list_by_submission_public(comments, submission_id))
    /\ UNCHANGED <<subs, scan, users, userRoles, ids, cacheVars, roleVars, listVars, comments, fileVars>>

\* POST /comments: image is <<>> or <<content type>>.  The body of the 201
\* response is the id of the row.
create_comment(credentials, submission_id, image) ==
    /\ ids.comment <= MaxComments
    /\ LET solved == solve_dependencies(create_comment_endpoint, credentials, users, userRoles)
           user == solved.values.user
           id == ids.comment
           Refuse(status_code) ==
               /\ reply' = Response("create_comment", credentials, submission_id,
                                    status_code, {})
               /\ UNCHANGED <<comments, ids, fileVars>>
       IN IF solved.code # 200 THEN Refuse(solved.code)
          ELSE IF "admin" \in user.roles THEN Refuse(403)
          ELSE IF image # <<>> /\ ~is_image(image[1]) THEN Refuse(400)
          ELSE IF submission_id \notin DOMAIN subs THEN Refuse(500)
          ELSE /\ comments' =
                     [i \in DOMAIN comments \cup {id} |->
                        IF i = id
                        THEN [submission_id |-> submission_id, user_id |-> user.user,
                              image_url |-> image # <<>>, status |-> "pending",
                              rejection_reason |-> <<>>, by |-> <<>>]
                        ELSE comments[i]]
               /\ ids' = [ids EXCEPT !.comment = @ + 1]
               /\ reply' = Response("create_comment", credentials, submission_id, 201, {id})
    /\ UNCHANGED <<subs, scan, users, userRoles, cacheVars, roleVars, listVars, fileVars>>

\* CommentModerateDTO.reason: Optional[str].
Reasons == {<<>>, <<"spam">>}

approved_KeepsReason(item) == [item EXCEPT !.status = "approved"]

\* item.status = "approved"; item.rejection_reason = None
approved(item) == [item EXCEPT !.status = "approved", !.rejection_reason = <<>>]

\* item.status = "rejected"; item.rejection_reason = data.reason
rejected(item, reason) == [item EXCEPT !.status = "rejected", !.rejection_reason = reason]

\* approve_comment and reject_comment: the row is changed and committed.
\* by records, for the claims, the operation and its caller.
moderate(endpoint, call, credentials, comment_id, new_status, reason) ==
    /\ LET solved == solve_dependencies(call, credentials, users, userRoles)
       IN IF solved.code # 200
          THEN /\ reply' = Response(endpoint, credentials, comment_id, solved.code, {})
               /\ UNCHANGED comments
          ELSE IF comment_id \notin DOMAIN comments
          THEN /\ reply' = Response(endpoint, credentials, comment_id, 404, {})
               /\ UNCHANGED comments
          ELSE /\ comments' = [comments EXCEPT
                     ![comment_id] =
                        [(IF new_status = "approved" THEN approved(@) ELSE rejected(@, reason))
                           EXCEPT !.by = <<[op |-> endpoint, who |-> Caller(credentials)]>>]]
               /\ reply' = Response(endpoint, credentials, comment_id, 200, {comment_id})
    /\ UNCHANGED <<subs, scan, users, userRoles, ids, cacheVars, roleVars, listVars, fileVars>>

\* POST /comments/{comment_id}/approve
approve_comment(credentials, comment_id) ==
    moderate("approve_comment", approve_comment_endpoint, credentials, comment_id,
             "approved", <<>>)

\* POST /comments/{comment_id}/reject
reject_comment(credentials, comment_id, reason) ==
    moderate("reject_comment", reject_comment_endpoint, credentials, comment_id,
             "rejected", reason)

\* GET /submissions/summary: the dependencies, then the cached summarize.
submissions_summary(c, credentials) ==
    /\ calls[c].pc = "idle"
    /\ LET solved == solve_dependencies(submissions_summary_endpoint, credentials,
                                        users, userRoles)
       IN IF solved.code # 200
          THEN /\ reply' = Response("submissions_summary", credentials, c, solved.code,
                                    [role_checked |-> solved.role_checked])
               /\ UNCHANGED <<cache, calls, ids, fileVars, lastSet>>
          ELSE /\ summarize_enter(c)
               /\ reply' = Response("submissions_summary", credentials, c, 200,
                                    [role_checked |-> solved.role_checked])
    /\ UNCHANGED <<subs, scan, users, userRoles, now, summary, roleVars, listVars, comments, fileVars, lastSet>>

\* The access tokens of the seeded admin and of a seeded user, and no token.
AdminToken == <<[type |-> "access", sub |-> 1]>>
UserToken == <<[type |-> "access", sub |-> MaxUsers]>>

(* -------- SpecComments: posting, moderating and listing comments ------- *)
InitComments ==
    /\ subs = ListTable(2, <<1, 1>>)
    /\ scan = NewestFirst(subs)
    /\ users = SeedUsers
    /\ userRoles = SeedUserRoles
    /\ ids = FirstIds(subs)
    /\ NoRequests

NextComments ==
    \/ \E s \in 1..3 : list_comments(s)
    \/ \E cr \in {<<>>, AdminToken, UserToken}, s \in 1..3,
          image \in {<<>>} \cup {<<t>> : t \in ContentTypes} : create_comment(cr, s, image)
    \/ \E i \in 1..MaxComments : approve_comment(AdminToken, i)
    \/ \E i \in 1..MaxComments, reason \in Reasons : reject_comment(AdminToken, i, reason)

SpecComments == InitComments /\ [][NextComments]_vars

\* C8: POST /comments stores the comment with status "pending", with or without
\* an image; GET /comments?submission_id=X returns exactly the comments of X
\* whose status is "approved", each of them last moderated by an approve; and a
\* comment no moderation has touched is pending.
C8_PendingUntilApproved ==
    /\ \A i \in DOMAIN comments : comments[i].by = <<>> => comments[i].status = "pending"
    /\ reply # <<>> =>
         LET r == reply[1]
         IN /\ (r.endpoint = "create_comment" /\ r.code = 201) =>
                  \A i \in r.body :
                     /\ i \in DOMAIN comments
                     /\ comments[i].status = "pending"
                     /\ comments[i].submission_id = r.arg
            /\ r.endpoint = "list_comments" =>
                  /\ r.code = 200
                  /\ r.body = {i \in DOMAIN comments :
                                  /\ comments[i].submission_id = r.arg
                                  /\ comments[i].status = "approved"}
                  /\ \A i \in r.body :
                        /\ comments[i].by # <<>>
                        /\ comments[i].by[1].op = "approve_comment"

\* Of one submission's two comments, the public listing showed the approved
\* one and left out the one with an image that is still pending.
C8_Witness ==
    /\ reply # <<>>
    /\ reply[1].endpoint = "list_comments"
    /\ Cardinality(reply[1].body) = 1
    /\ \E j \in DOMAIN comments \ reply[1].body :
          /\ comments[j].submission_id = reply[1].arg
          /\ comments[j].status = "pending"
          /\ comments[j].image_url

(* ----- SpecModeration: anyone may send a moderation request ----------- *)
InitModeration == InitComments

NextModeration ==
    \/ \E s \in DOMAIN subs : create_comment(UserToken, s, <<>>)
    \/ \E cr \in Credentials, i \in 1..MaxComments : approve_comment(cr, i)
    \/ \E cr \in Credentials, i \in 1..MaxComments, reason \in Reasons :
          reject_comment(cr, i, reason)
    \/ \E s \in DOMAIN subs : list_comments(s)
    \/ \E u \in DOMAIN users : SetUserActive(u, FALSE)

SpecModeration == InitModeration /\ [][NextModeration]_vars

\* C9: a comment's status is other than "pending" only through an approve or a
\* reject whose caller was authenticated, active and admin; the author never
\* approved their own comment.
C9_OnlyAdminsModerate ==
    \A i \in DOMAIN comments :
        /\ comments[i].by = <<>> => comments[i].status = "pending"
        /\ comments[i].by # <<>> =>
              LET m == comments[i].by[1]
              IN /\ m.who.code = 200
                 /\ "admin" \in m.who.roles
                 /\ comments[i].status = "approved" => m.who.user # comments[i].user_id

(* ------ SpecAdmin: anyone may request GET /submissions/summary --------- *)
InitAdmin == InitCache

NextAdmin ==
    \/ \E c \in 1..MaxCalls, cr \in Credentials : submissions_summary(c, cr)
    \/ \E c \in 1..MaxCalls : SummaryFinish(c)
    \/ \E u \in DOMAIN users : SetUserActive(u, FALSE)
    \/ \E i \in DOMAIN subs, st \in Statuses : UpdateStatus(i, st)

SpecAdmin == InitAdmin /\ [][NextAdmin]_vars

\* C10: the role check runs on every summary request; a caller who is not
\* authenticated gets 401 and one who is authenticated but not admin gets 403,
\* and for neither is the summary looked up, computed or returned.
C10_SummaryAdminOnly ==
    (reply # <<>> /\ reply[1].endpoint = "submissions_summary") =>
        LET r == reply[1]
            admin == r.who.code = 200 /\ "admin" \in r.who.roles
        IN /\ r.body.role_checked
           /\ r.who.code # 200 => r.code = 401
           /\ (r.who.code = 200 /\ ~admin) => r.code = 403
           /\ ~admin => calls[r.arg].pc = "idle"

(* --------------------------- monthly timeline -------------------------- *)
\* In SpecMonthly a datetime is kept to the month: the number of its month
\* counted from January of year 0.
dt_year(dt) == dt \div 12
dt_month(dt) == (dt % 12) + 1

\* The decimal digits of n, zero-padded to width: "%04d" and "%02d".
Digits(n, width) == [k \in 1..width |-> (n \div (10 ^ (width - k))) % 10]

\* f"{y:04d}-{m:02d}", as the digits of the year and of the month.
format_key(y, m) == <<Digits(y, 4), Digits(m, 2)>>

\* dt.strftime("%Y-%m")
strftime_Ym(dt) == format_key(dt_year(dt), dt_month(dt))

\* y = now.year if now.month - i > 0 else now.year - 1
timeline_year_NoRollover(utcnow, i) == dt_year(utcnow)
timeline_year(utcnow, i) ==
    IF dt_month(utcnow) - i > 0 THEN dt_year(utcnow) ELSE dt_year(utcnow) - 1

\* m = ((now.month - i - 1) % 12) + 1
timeline_month(utcnow, i) == ((dt_month(utcnow) - i - 1) % 12) + 1

\* months[key] += 1 over the created_at of every row, then the timeline for
\* i = 11, 10, ..., 0.
monthly_new(table, utcnow) ==
    LET keys == {strftime_Ym(table[r].created_at) : r \in DOMAIN table}
        months == [key \in keys |->
                     Cardinality({r \in DOMAIN table :
                                     strftime_Ym(table[r].created_at) = key})]
    IN [k \in 1..12 |->
          LET i == 12 - k
              key == format_key(timeline_year(utcnow, i), timeline_month(utcnow, i))
          IN [month |-> key, count |-> DictGet(months, key, 0)]]

\* The clock is in one of the twelve months of a year; rows were created in
\* that month, half a year, eleven months or twelve months before it.
Clocks == {2026 * 12 + m : m \in 0..11}
CreatedAround(t) == {t - 12, t - 11, t - 6, t}
MonthlyTables(t) ==
    UNION {[1..n -> [status : {"pending"}, images : {NoImages}, user_id : {NullId},
                     created_at : CreatedAround(t)]] : n \in 0..MaxSubs}

(* ------------- SpecMonthly: the timeline in every month ---------------- *)
InitMonthly ==
    /\ now \in Clocks
    /\ subs \in MonthlyTables(now)
    /\ scan = NewestFirst(subs)
    /\ users = SeedUsers
    /\ userRoles = SeedUserRoles
    /\ ids = FirstIds(subs)
    /\ cache = <<>>
    /\ calls = [c \in 1..MaxCalls |-> IdleCall]
    /\ summary = <<>>
    /\ txns = [t \in 1..MaxTxns |-> IdleTxn]
    /\ assigned = [u \in 1..MaxUsers + 1 |-> "none"]
    /\ listing = <<>>
    /\ walk = NoWalk
    /\ comments = <<>>
    /\ reply = <<>>
    /\ files = <<>>
    /\ lastSet = <<>>

RunMonthly ==
    /\ summary' = <<[monthly_new |-> monthly_new(subs, now)]>>
    /\ UNCHANGED <<subs, scan, users, userRoles, ids, cache, now, calls, txns, assigned,
                   listVars, commentVars, fileVars, lastSet>>

NextMonthly == RunMonthly

SpecMonthly == InitMonthly /\ [][NextMonthly]_vars

\* C12: monthly_new has 12 entries; the k-th is keyed by the month 12 - k
\* months before the current one, as four digits of the year and two of the
\* month, and counts the submissions created in that month (0 if none).
C12_MonthlyTimeline ==
    summary # <<>> =>
        LET timeline == summary[1].monthly_new
        IN /\ Len(timeline) = 12
           /\ \A k \in 1..12 :
                LET t == now - (12 - k)
                IN /\ timeline[k].month = <<Digits(t \div 12, 4), Digits((t % 12) + 1, 2)>>
                   /\ timeline[k].count =
                        Cardinality({r \in DOMAIN subs : subs[r].created_at = t})
           /\ timeline[12].month[1] = Digits(now \div 12, 4)

\* In March, with rows from last March (outside), last April and this March:
\* the timeline runs from April of the previous year and counts both.
C12_Witness ==
    /\ summary # <<>>
    /\ dt_month(now) = 3
    /\ \E r \in DOMAIN subs : subs[r].created_at = now - 12
    /\ summary[1].monthly_new[1] = [month |-> <<<<2, 0, 2, 5>>, <<0, 4>>>>, count |-> 1]
    /\ summary[1].monthly_new[12] = [month |-> <<<<2, 0, 2, 6>>, <<0, 3>>>>, count |-> 1]

(* ---------------------------- top submitters --------------------------- *)
TopLimit == 5

\* GROUP BY user_id: one group per value of user_id that occurs, NULL included.
OwnerGroups(table) == {table[r].user_id : r \in DOMAIN table}
OwnerCount(table, u) == Cardinality({r \in DOMAIN table : table[r].user_id = u})

\* ... ORDER BY count(id) DESC LIMIT len: the results the database may give.
\* The next row is any of the remaining groups with the highest count, so
\* groups with equal counts come in any order.
RECURSIVE OrderByCountDesc(_, _, _)
OrderByCountDesc(table, groups, len) ==
    IF len = 0 \/ groups = {} THEN {<<>>}
    ELSE LET first == {g \in groups :
                          \A h \in groups : OwnerCount(table, g) >= OwnerCount(table, h)}
         IN UNION {{<<g>> \o rest : rest \in OrderByCountDesc(table, groups \ {g}, len - 1)} :
                      g \in first}

TopGroupRows(table) == OrderByCountDesc(table, OwnerGroups(table), TopLimit)

\* The loop over the rows: a row whose uid is None is skipped.
top_submitters(table, rows) ==
    LET kept == SelectSeq(rows, LAMBDA uid : uid # NullId)
    IN [k \in 1..Len(kept) |-> [user_id |-> kept[k], count |-> OwnerCount(table, kept[k])]]

\* Tables of TopLimit + 2 rows owned by up to TopLimit users or by nobody;
\* the owners are listed in id order.
TopRows == TopLimit + 2
TopOwners == {f \in [1..TopRows -> 0..TopLimit] : \A j \in 1..TopRows - 1 : f[j] <= f[j + 1]}
TopTables ==
    {[r \in 1..TopRows |-> [status |-> "pending", images |-> NoImages,
                            user_id |-> f[r], created_at |-> 1]] : f \in TopOwners}

(* ------------- SpecTop: the top submitters of a table ------------------ *)
InitTop ==
    /\ subs \in TopTables
    /\ scan = NewestFirst(subs)
    /\ users = [u \in 1..TopLimit |-> [is_active |-> TRUE]]
    /\ userRoles = {}
    /\ ids = FirstIds(subs)
    /\ NoRequests

RunTop ==
    /\ \E rows \in TopGroupRows(subs) :
          summary' = <<[top_submitters |-> top_submitters(subs, rows)]>>
    /\ UNCHANGED <<subs, scan, users, userRoles, ids, cache, now, calls, txns, assigned,
                   listVars, commentVars, fileVars, lastSet>>

NextTop == RunTop

SpecTop == InitTop /\ [][NextTop]_vars

\* C13: top_submitters lists min(5, number of users owning submissions) users,
\* each once with their exact count, in non-increasing order of count, and no
\* user left out owns more submissions than a listed one.
C13_TopSubmitters ==
    summary # <<>> =>
        LET top == summary[1].top_submitters
            owners == OwnerGroups(subs) \ {NullId}
            listed == {top[k].user_id : k \in 1..Len(top)}
        IN /\ Len(top) = Min(5, Cardinality(owners))
           /\ listed \subseteq owners
           /\ Cardinality(listed) = Len(top)
           /\ \A k \in 1..Len(top) : top[k].count = OwnerCount(subs, top[k].user_id)
           /\ \A j, k \in 1..Len(top) : j < k => top[j].count >= top[k].count
           /\ \A u \in owners \ listed, v \in listed :
                 OwnerCount(subs, u) <= OwnerCount(subs, v)

(* --------------- SpecUsers: summarize over every user table ------------ *)
\* Up to MaxUsers users, each active or not and holding one role or none
\* (uq_user_roles_user allows one mapping per user).
UserTables == UNION {[1..n -> [is_active : BOOLEAN]] : n \in 0..MaxUsers}
RoleMappings(usr) ==
    {{[id |-> u, user_id |-> u, role |-> g[u]] : u \in {v \in DOMAIN usr : g[v] # "none"}} :
        g \in [DOMAIN usr -> {"none", "admin", "user", "moderator"}]}

InitUsers ==
    /\ subs \in {<<>>, SeedSubmissions}
    /\ scan = NewestFirst(subs)
    /\ users \in UserTables
    /\ userRoles \in RoleMappings(users)
    /\ ids = FirstIds(subs)
    /\ NoRequests

NextUsers == RunSummarize

SpecUsers == InitUsers /\ [][NextUsers]_vars

create_submission_endpoint == Callable([db |-> Depends_get_db, user |-> Depends_get_current_user])
update_submission_endpoint == Callable([db |-> Depends_get_db, user |-> Depends_get_current_user])
delete_submission_endpoint == Callable([db |-> Depends_get_db, user |-> Depends_get_current_user])

\* SubmissionRepository.update: setattr for every field whose value is not None.
\* data is the SubmissionUpdateDTO, of which the model keeps status and images;
\* a field that was not sent is None (<<>>).
SubmissionRepository_update_Ignore(table, id, data) == table
SubmissionRepository_update_SetsNone(table, id, data) ==
    IF id \notin DOMAIN table THEN table
    ELSE [table EXCEPT ![id] =
            [@ EXCEPT !.status = IF data.status # <<>> THEN data.status[1] ELSE "pending",
                      !.images = IF data.images # <<>> THEN SomeImages(data.images[1]) ELSE @]]
SubmissionRepository_update(table, id, data) ==
    IF id \notin DOMAIN table THEN table
    ELSE [table EXCEPT ![id] =
            [@ EXCEPT !.status = IF data.status # <<>> THEN data.status[1] ELSE @,
                      !.images = IF data.images # <<>> THEN SomeImages(data.images[1]) ELSE @]]

\* What update returns: the row, or None (<<>>) when get_by_id found nothing.
SubmissionRepository_update_returns(table, id, data) ==
    IF id \notin DOMAIN table THEN <<>>
    ELSE <<SubmissionRepository_update(table, id, data)[id]>>

\* POST /submissions: images is the list of the uploads' content types.
create_submission(credentials, images) ==
    /\ ids.submission <= MaxSubs
    /\ LET solved == solve_dependencies(create_submission_endpoint, credentials,
                                        users, userRoles)
           user == solved.values.user
           id == ids.submission
           Refuse(status_code) ==
               /\ reply' = Response("create_submission", credentials, images,
                                    status_code, {})
               /\ UNCHANGED <<subs, scan, ids, fileVars>>
       IN IF solved.code # 200 THEN Refuse(solved.code)
          ELSE IF Len(images) < 3 THEN Refuse(400)
          ELSE IF \E k \in 1..Len(images) : ~is_image(images[k]) THEN Refuse(400)
          ELSE /\ subs' = [i \in DOMAIN subs \cup {id} |->
                             IF i = id
                             THEN [status |-> "pending",
                                   images |-> SomeImages([k \in 1..Len(images) |-> k]),
                                   user_id |-> user.user, created_at |-> now]
                             ELSE subs[i]]
               /\ scan' = <<id>> \o scan
               /\ ids' = [ids EXCEPT !.submission = @ + 1]
               /\ reply' = Response("create_submission", credentials, images, 201, {id})
    /\ UNCHANGED <<users, userRoles, cacheVars, roleVars, listVars, comments, fileVars>>

\* existing.user_id != user.id and "admin" not in user_roles; a NULL user_id
\* equals no user's id.
forbidden_UnlessOrphan(existing, user) ==
    /\ existing.user_id # NullId
    /\ existing.user_id # user.user
    /\ "admin" \notin user.roles
forbidden(existing, user) == existing.user_id # user.user /\ "admin" \notin user.roles

\* PUT /submissions/{submission_id}.  The response carries, for the claims, the
\* data sent and the status the row had before.
update_submission(credentials, submission_id, data) ==
    /\ LET solved == solve_dependencies(update_submission_endpoint, credentials,
                                        users, userRoles)
           user == solved.values.user
           Refuse(status_code) ==
               /\ reply' = Response("update_submission", credentials, submission_id,
                                    status_code, [data |-> data, before |-> <<>>])
               /\ UNCHANGED subs
       IN IF solved.code # 200 THEN Refuse(solved.code)
          ELSE IF submission_id \notin DOMAIN subs THEN Refuse(404)
          ELSE IF forbidden(subs[submission_id], user) THEN Refuse(403)
          ELSE /\ subs' = SubmissionRepository_update(subs, submission_id, data)
               /\ reply' = Response("update_submission", credentials, submission_id, 200,
                                    [data |-> data, before |-> <<subs[submission_id].status>>])
    /\ UNCHANGED <<scan, users, userRoles, ids, cacheVars, roleVars, listVars, comments, fileVars>>

\* DELETE /submissions/{submission_id}.  The flush of the delete sets the
\* submission_id of the submission's comments to NULL, which the column
\* forbids: with comments the request fails and nothing is committed.
delete_submission(credentials, submission_id) ==
    /\ LET solved == solve_dependencies(delete_submission_endpoint, credentials,
                                        users, userRoles)
           user == solved.values.user
           Refuse(status_code) ==
               /\ reply' = Response("delete_submission", credentials, submission_id,
                                    status_code, {})
               /\ UNCHANGED <<subs, scan, fileVars>>
       IN IF solved.code # 200 THEN Refuse(solved.code)
          ELSE IF submission_id \notin DOMAIN subs THEN Refuse(404)
          ELSE IF forbidden(subs[submission_id], user) THEN Refuse(403)
          ELSE IF \E c \in DOMAIN comments : comments[c].submission_id = submission_id
          THEN Refuse(500)
          ELSE /\ subs' = [j \in DOMAIN subs \ {submission_id} |-> subs[j]]
               /\ scan' = Remove(scan, submission_id)
               /\ reply' = Response("delete_submission", credentials, submission_id, 204, {})
    /\ UNCHANGED <<users, userRoles, ids, cacheVars, roleVars, listVars, comments, fileVars>>

(* --- SpecStatus: submissions are created, the first has its status set -- *)
InitStatus ==
    /\ subs = <<>>
    /\ scan = NewestFirst(subs)
    /\ users = SeedUsers
    /\ userRoles = SeedUserRoles
    /\ ids = FirstIds(subs)
    /\ NoRequests

Uploads == {<<>>, <<"image/png", "image/png">>, <<"image/png", "image/png", "image/png">>,
            <<"image/png", "text/plain", "image/png">>}

NextStatus ==
    \/ \E cr \in {AdminToken, UserToken}, images \in Uploads : create_submission(cr, images)
    \/ \E cr \in {AdminToken, UserToken}, st \in {<<>>} \cup {<<s>> : s \in Statuses} :
            update_submission(cr, 1, [status |-> st, images |-> <<>>])

SpecStatus == InitStatus /\ [][NextStatus]_vars

\* C16: a created submission is pending, and an update by the owner or an admin
\* that carries a status sets the row to it whatever the status was before;
\* one that carries none leaves the status as it was.
C16_StatusUnconstrained ==
    reply # <<>> =>
        LET r == reply[1]
        IN /\ (r.endpoint = "create_submission" /\ r.code = 201) =>
                 \A i \in r.body : i \in DOMAIN subs /\ subs[i].status = "pending"
           /\ (r.endpoint = "update_submission" /\ r.arg \in DOMAIN subs) =>
                 LET owner == r.who.code = 200 /\ subs[r.arg].user_id = r.who.user
                     admin == r.who.code = 200 /\ "admin" \in r.who.roles
                 IN (owner \/ admin) =>
                       /\ r.code = 200
                       /\ r.body.data.status # <<>> =>
                             subs[r.arg].status = r.body.data.status[1]
                       /\ r.body.data.status = <<>> =>
                             subs[r.arg].status = r.body.before[1]

\* The owner set a found_dead submission back to pending.
C16_Witness ==
    /\ reply # <<>>
    /\ reply[1].endpoint = "update_submission"
    /\ reply[1].code = 200
    /\ reply[1].who.user = subs[reply[1].arg].user_id
    /\ "admin" \notin reply[1].who.roles
    /\ reply[1].body.before[1] = "found_dead"
    /\ subs[reply[1].arg].status = "pending"

(* ---- SpecOwnership: who may update or delete an existing submission ---- *)
\* Three published rows: one whose owner was deleted, and one each owned by
\* two seeded users, the last of whom holds UserToken or is an admin.
InitOwnership ==
    /\ subs = ListTable(3, <<1, 1, 1>>)
    /\ scan = NewestFirst(subs)
    /\ users = SeedUsers
    /\ userRoles = SeedUserRoles
    /\ ids = FirstIds(subs)
    /\ NoRequests

RefreshToken == <<[type |-> "refresh", sub |-> 1]>>
Callers == {<<>>, RefreshToken, AdminToken, UserToken}

NextOwnership ==
    \/ \E cr \in Callers, i \in 1..4, st \in {"pending", "found_alive"} :
            update_submission(cr, i, [status |-> <<st>>, images |-> <<>>])
    \/ \E cr \in Callers, i \in 1..4 : delete_submission(cr, i)

SpecOwnership == InitOwnership /\ [][NextOwnership]_vars

\* The request the step served, as its response tells.
Served == reply'[1]
IsOwner(r) == r.who.code = 200 /\ r.arg \in DOMAIN subs /\ subs[r.arg].user_id = r.who.user
IsAdmin(r) == r.who.code = 200 /\ "admin" \in r.who.roles

\* C20 as stated: a missing id gives 404, and every caller that is not the
\* authenticated owner or an authenticated admin gets 403; both leave the
\* submissions unchanged.
C20_OthersGet403 ==
    [][ IF Served.arg \notin DOMAIN subs
        THEN Served.code = 404 /\ subs' = subs
        ELSE ~(IsOwner(Served) \/ IsAdmin(Served)) => (Served.code = 403 /\ subs' = subs) ]_vars

\* C20, amended: a caller who is not authenticated gets 401 whatever the id;
\* an authenticated caller gets 404 for a missing id and 403 for a submission
\* of which they are neither the owner nor an admin; the three errors leave
\* every submission unchanged; and a step that changes the submissions changes
\* only the addressed row, for its owner or an admin, and a row without an
\* owner only for an admin.
C20_OwnerOrAdmin ==
    [][ /\ IF Served.who.code # 200 THEN Served.code = 401 /\ subs' = subs
           ELSE IF Served.arg \notin DOMAIN subs THEN Served.code = 404 /\ subs' = subs
           ELSE ~(IsOwner(Served) \/ IsAdmin(Served)) => (Served.code = 403 /\ subs' = subs)
        /\ subs' # subs =>
              /\ Served.code \in {200, 204}
              /\ IsOwner(Served) \/ IsAdmin(Served)
              /\ subs[Served.arg].user_id = NullId => IsAdmin(Served)
              /\ \A i \in DOMAIN subs \ {Served.arg} : i \in DOMAIN subs' /\ subs'[i] = subs[i] ]_vars

\* An ordinary user, who had updated their own submission, was refused with 403
\* on the submission without an owner, which an admin had deleted or updated
\* before or which is still as seeded.
C20_Witness ==
    /\ reply # <<>>
    /\ reply[1].code = 403
    /\ reply[1].who.code = 200
    /\ reply[1].arg \in DOMAIN subs
    /\ subs[reply[1].arg].user_id = NullId
    /\ \E i \in DOMAIN subs :
          subs[i].user_id = reply[1].who.user /\ subs[i].status = "found_alive"
    /\ Cardinality(DOMAIN subs) < 3

(* ---------------------------- age progression -------------------------- *)
HF_SPACES == <<"akhaliq/Photo-to-Older", "akhaliq/Face-Aging">>

\* The decade bucket of the target age (None is <<>>).
age_bucket(target_age) ==
    IF target_age = <<>> THEN <<>>
    ELSE LET a == target_age[1]
         IN <<IF a < 20 THEN "<20" ELSE IF a < 30 THEN "20s" ELSE IF a < 40 THEN "30s"
              ELSE IF a < 50 THEN "40s" ELSE IF a < 60 THEN "50s" ELSE "60+">>

\* cache_filename = f"ap_{submission_id}_{years}{cache_suffix}.jpg"
cache_filename(submission_id, years, target_age) ==
    <<"ap", submission_id, years, age_bucket(target_age)>>

\* with open(cache_path, "wb") as f: f.write(content)
WriteFile(disk, name, content) ==
    [f \in DOMAIN disk \cup {name} |-> IF f = name THEN content ELSE disk[f]]

\* What the world does to one call: the download of the source image fails,
\* gives no bytes or gives bytes; each Space fails or gives an image that is
\* cached; the write of the fallback succeeds, fails before the file exists, or
\* fails leaving a partial file.
SpaceOutcomes == [1..Len(HF_SPACES) -> {"ok", "error"}]
AllFail == [k \in 1..Len(HF_SPACES) |-> "error"]
Environments ==
    {[download |-> "error", spaces |-> AllFail, fallback |-> "error"]}
    \cup [download : {"empty", "bytes"}, spaces : SpaceOutcomes \ {AllFail}, fallback : {"ok"}]
    \cup [download : {"empty", "bytes"}, spaces : {AllFail},
          fallback : {"ok", "error", "partial"}]

\* The Spaces contacted by the loop: up to and including the first that succeeds.
SpacesTried(outcomes) ==
    LET ok == {k \in DOMAIN outcomes : outcomes[k] = "ok"}
    IN IF ok = {} THEN Len(HF_SPACES) ELSE CHOOSE k \in ok : \A j \in ok : k <= j

\* All Spaces failed: cache an enhanced copy of the original, if there are bytes.
fallback_cache_None(disk, name, env) == [url |-> <<>>, files |-> disk]
fallback_cache(disk, name, env) ==
    IF env.download = "empty" THEN [url |-> <<>>, files |-> disk]
    ELSE IF env.fallback = "ok"
    THEN [url |-> <<name>>, files |-> WriteFile(disk, name, "enhanced original")]
    ELSE IF env.fallback = "partial"
    THEN [url |-> <<>>, files |-> WriteFile(disk, name, "partial")]
    ELSE [url |-> <<>>, files |-> disk]

\* generate_age_progression: the URL (None is <<>>), the cache directory it
\* leaves, and what it contacted.
generate_age_progression(disk, submission_id, years_arg, target_age, env) ==
    LET years == Max(1, years_arg)
        name == cache_filename(submission_id, years, target_age)
        tried == <<"source">> \o SubSeq(HF_SPACES, 1, SpacesTried(env.spaces))
    IN IF name \in DOMAIN disk
       THEN [url |-> <<name>>, files |-> disk, contacted |-> <<>>]
       ELSE IF env.download = "error"
       THEN [url |-> <<>>, files |-> disk, contacted |-> <<"source">>]
       ELSE IF \E k \in DOMAIN env.spaces : env.spaces[k] = "ok"
       THEN [url |-> <<name>>, files |-> WriteFile(disk, name, "aged"), contacted |-> tried]
       ELSE LET fb == fallback_cache(disk, name, env)
            IN [url |-> fb.url, files |-> fb.files, contacted |-> tried]

\* GET /submissions/{submission_id}/age-progression.  elapsed is the number of
\* whole years from the row's created_at to the clock and target_age what the
\* row's dob makes of it (None without a dob).
age_progression(submission_id, elapsed, target_age, env) ==
    /\ LET Refuse(status_code) ==
               /\ reply' = Response("age_progression", <<>>, submission_id, status_code, <<>>)
               /\ UNCHANGED files
       IN IF submission_id \notin DOMAIN subs THEN Refuse(404)
          ELSE IF subs[submission_id].status \notin {"published", "found_alive", "found_dead"}
          THEN Refuse(404)
          ELSE IF subs[submission_id].images \in {NoImages, SomeImages(<<>>)} THEN Refuse(400)
          ELSE LET years == IF elapsed = 0 THEN 1 ELSE elapsed
                   out == generate_age_progression(files, submission_id, years, target_age, env)
               IN /\ files' = out.files
                  /\ reply' = Response("age_progression", <<>>, submission_id,
                                       IF out.url = <<>> THEN 502 ELSE 200,
                                       [url |-> out.url, contacted |-> out.contacted,
                                        name |-> cache_filename(submission_id, years, target_age),
                                        cached |-> cache_filename(submission_id, years,
                                                                  target_age) \in DOMAIN files,
                                        env |-> env])
    /\ UNCHANGED <<subs, scan, users, userRoles, ids, cacheVars, roleVars, listVars, comments>>

(* -------- SpecAge: age-progression requests and what the world does ---- *)
InitAge ==
    /\ subs = [i \in 1..3 |->
                 [status |-> IF i = 2 THEN "pending" ELSE "published",
                  images |-> IF i = 3 THEN SomeImages(<<>>) ELSE SomeImages(<<1, 2, 3>>),
                  user_id |-> MaxUsers, created_at |-> 0]]
    /\ scan = NewestFirst(subs)
    /\ users = SeedUsers
    /\ userRoles = SeedUserRoles
    /\ ids = FirstIds(subs)
    /\ NoRequests

NextAge ==
    \E i \in 1..4, elapsed \in {0, 2}, target_age \in {<<>>, <<25>>}, env \in Environments :
        /\ (target_age # <<>> => elapsed = 0)
        /\ age_progression(i, elapsed, target_age, env)

SpecAge == InitAge /\ [][NextAge]_vars

get_submission(submission_id) ==
    /\ reply' =
          IF submission_id \notin DOMAIN subs
          THEN Response("get_submission", <<>>, submission_id, 404, <<>>)
          ELSE IF subs[submission_id].status \notin {"published", "found_alive", "found_dead"}
          THEN Response("get_submission", <<>>, submission_id, 404, <<>>)
          ELSE Response("get_submission", <<>>, submission_id, 200, <<subs[submission_id]>>)
    /\ UNCHANGED <<subs, scan, users, userRoles, ids, cacheVars, roleVars, listVars, comments, fileVars>>

\* Two rows with images, in every combination of statuses.
PublicTables ==
    {[i \in 1..2 |-> [status |-> st[i], images |-> SomeImages(<<1, 2, 3>>),
                      user_id |-> MaxUsers, created_at |-> i]] : st \in [1..2 -> Statuses]}

InitPublic ==
    /\ subs \in PublicTables
    /\ scan = NewestFirst(subs)
    /\ users = SeedUsers
    /\ userRoles = SeedUserRoles
    /\ ids = FirstIds(subs)
    /\ NoRequests

NextPublic ==
    \/ \E i \in 1..3 : get_submission(i)
    \/ \E page \in {1, 2}, limit \in {1, 2} : list_submissions(page, limit)
    \/ \E i \in 1..3 :
          age_progression(i, 0, <<>>, [download |-> "bytes", spaces |-> AllFail, fallback |-> "ok"])

SpecPublic == InitPublic /\ [][NextPublic]_vars

\* C21: a pending or rejected submission is answered with 404 by GET
\* /submissions/{id} and by its age progression, and is in no page of the
\* listing GET /submissions.
C21_NonPublicHidden ==
    /\ (reply # <<>> /\ reply[1].arg \in DOMAIN subs
          /\ subs[reply[1].arg].status \notin public_status) => reply[1].code = 404
    /\ (listing # <<>> /\ listing[1].user = NullId) =>
          \A k \in DOMAIN listing[1].items : subs[listing[1].items[k]].status \in public_status

(* ------------------------------- tokens -------------------------------- *)
MaxPatches == 2

\* jwt.encode of the data with "type" added; a claim the data lacks is <<>>.
\* Every token here is signed by this server and has not expired.
create_access_token(data) ==
    [type |-> "access", sub |-> data.sub, role |-> data.role, email |-> <<>>]
create_refresh_token(data) ==
    [type |-> "refresh", sub |-> data.sub, role |-> data.role, email |-> <<>>]
generate_password_reset_token(email) ==
    [type |-> "password_reset", sub |-> NullId, role |-> <<>>, email |-> <<email>>]

\* verify_password_reset_token: the email of the payload, None on JWTError.
verify_password_reset_token(token) ==
    LET decoded_token == verify_token(token, "password_reset")
    IN IF decoded_token = <<>> THEN <<>> ELSE decoded_token[1].email

\* get_roles(user.id); roles[0].name if roles else "user"
login_role_name(roles, user_id) ==
    LET names == {r.role : r \in RolesOf(roles, user_id)}
    IN IF names = {} THEN "user" ELSE CHOOSE n \in names : TRUE

\* POST /auth/login for the account of user u (NullId: no such email), with the
\* right password or a wrong one.
login(u, password_ok) ==
    /\ reply' =
          IF u \notin DOMAIN users \/ ~password_ok
          THEN Response("login", <<>>, u, 401, {})
          ELSE IF ~users[u].is_active
          THEN Response("login", <<>>, u, 401, {})
          ELSE LET data == [sub |-> u, role |-> <<login_role_name(userRoles, u)>>]
               IN Response("login", <<>>, u, 200,
                           {create_access_token(data), create_refresh_token(data)})
    /\ UNCHANGED <<subs, scan, users, userRoles, ids, cacheVars, roleVars, listVars, comments, fileVars>>

\* POST /auth/refresh: verify_token(request.refresh_token, "refresh"); no
\* database is consulted.  Any exception becomes 401.
refresh_token(token) ==
    /\ reply' =
          LET payload == verify_token(token, "refresh")
          IN IF payload = <<>> THEN Response("refresh_token", <<>>, token, 401, {})
             ELSE LET data == [sub |-> payload[1].sub, role |-> <<>>]
                  IN Response("refresh_token", <<>>, token, 200,
                              {create_access_token(data), create_refresh_token(data)})
    /\ UNCHANGED <<subs, scan, users, userRoles, ids, cacheVars, roleVars, listVars, comments, fileVars>>

me_endpoint == Callable([user |-> Depends_get_current_user])
list_users_endpoint == require_roles({"admin"}, Callable([db |-> Depends_get_db]))
admin_update_user_endpoint == require_roles({"admin"}, Callable([db |-> Depends_get_db]))

\* GET /auth/me
me(credentials) ==
    /\ LET solved == solve_dependencies(me_endpoint, credentials, users, userRoles)
       IN reply' = Response("me", credentials, credentials, solved.code, {})
    /\ UNCHANGED <<subs, scan, users, userRoles, ids, cacheVars, roleVars, listVars, comments, fileVars>>

\* GET /admin/users: the body is the set of user ids listed.
list_users(credentials) ==
    /\ LET solved == solve_dependencies(list_users_endpoint, credentials, users, userRoles)
       IN reply' = Response("list_users", credentials, credentials, solved.code,
                            IF solved.code = 200 THEN DOMAIN users ELSE {})
    /\ UNCHANGED <<subs, scan, users, userRoles, ids, cacheVars, roleVars, listVars, comments, fileVars>>

\* PATCH /admin/users/{user_id}, served with no other request in flight:
\* update_user when is_active is sent, add_role when is_admin is sent, commit.
patch_user(credentials, user_id, is_active, is_admin) ==
    /\ ids.change < MaxPatches
    /\ LET solved == solve_dependencies(admin_update_user_endpoint, credentials,
                                        users, userRoles)
           Refuse(status_code) ==
               /\ reply' = Response("admin_update_user", credentials, user_id, status_code, {})
               /\ UNCHANGED <<users, userRoles, ids>>
       IN IF solved.code # 200 THEN Refuse(solved.code)
          ELSE IF user_id \notin DOMAIN users THEN Refuse(404)
          ELSE /\ users' = IF is_active = <<>> THEN users
                           ELSE [users EXCEPT ![user_id].is_active = is_active[1]]
               /\ userRoles' =
                     IF is_admin = <<>> THEN userRoles
                     ELSE (userRoles \ RolesOf(userRoles, user_id)) \cup
                          {[id |-> ids.user_roles, user_id |-> user_id,
                            role |-> IF is_admin[1] THEN "admin" ELSE "user"]}
               /\ ids' = [ids EXCEPT !.change = @ + 1,
                                     !.user_roles = IF is_admin = <<>> THEN @ ELSE @ + 1]
               /\ reply' = Response("admin_update_user", credentials, user_id, 200,
                                    [is_active |-> is_active, is_admin |-> is_admin])
    /\ UNCHANGED <<subs, scan, cacheVars, roleVars, listVars, comments, fileVars>>

\* Every token a user can hold: those of a login under either role, and those
\* a refresh gave.
TokensOf(u) ==
    UNION {{create_access_token([sub |-> u, role |-> r]),
            create_refresh_token([sub |-> u, role |-> r])} :
           r \in {<<>>} \cup {<<n>> : n \in RoleNames}}

(* ---- SpecDeactivate: accounts are switched off and on between requests ---- *)
InitDeactivate ==
    /\ subs = SeedSubmissions
    /\ scan = NewestFirst(subs)
    /\ users = SeedUsers
    /\ userRoles = SeedUserRoles
    /\ ids = FirstIds(subs)
    /\ NoRequests

NextDeactivate ==
    \/ \E u \in DOMAIN users, b \in BOOLEAN : patch_user(AdminToken, u, <<b>>, <<>>)
    \/ \E u \in DOMAIN users \cup {NullId}, ok \in BOOLEAN : login(u, ok)
    \/ \E u \in DOMAIN users : \E t \in TokensOf(u) : refresh_token(t)
    \/ \E u \in DOMAIN users : \E t \in TokensOf(u) : me(<<t>>)
    \/ \E u \in DOMAIN users : \E t \in TokensOf(u) : list_users(<<t>>)

SpecDeactivate == InitDeactivate /\ [][NextDeactivate]_vars

\* C22: a request to an endpoint that requires a login, sent with any token of
\* a user whose is_active is false, is answered 401, and so is a login to that
\* account.
C22_DeactivatedLockedOut ==
    [][ reply' # <<>> =>
          LET r == reply'[1]
          IN /\ (r.endpoint \in {"me", "list_users"} /\ ~users[r.arg[1].sub].is_active)
                   => r.code = 401
             /\ (r.endpoint = "login" /\ r.arg \in DOMAIN users /\ ~users[r.arg].is_active)
                   => r.code = 401 ]_vars

(* ------ SpecTokens: every kind of token is sent to every endpoint ------ *)
\* POST /auth/forgot-password: the response carries the reset token when a
\* user holds the email.
forgot_password(email) ==
    /\ reply' = Response("forgot_password", <<>>, email, 200,
                         IF get_by_email(users, email) # {}
                         THEN {generate_password_reset_token(email)} ELSE {})
    /\ UNCHANGED <<subs, scan, users, userRoles, ids, cacheVars, roleVars, listVars, comments, fileVars>>

\* POST /auth/reset-password: new_password is the hash stored on success.
reset_password(token, new_password) ==
    /\ LET email == verify_password_reset_token(token)
           found == IF email = <<>> THEN {} ELSE get_by_email(users, email[1])
       IN IF email = <<>> \/ found = {}
          THEN /\ reply' = Response("reset_password", <<>>, token, 400, {})
               /\ UNCHANGED users
          ELSE /\ users' = [u \in DOMAIN users |->
                              IF u \in found THEN [users[u] EXCEPT !.password_hash = new_password]
                              ELSE users[u]]
               /\ reply' = Response("reset_password", <<>>, token, 200, found)
    /\ UNCHANGED <<subs, scan, userRoles, ids, cacheVars, roleVars, listVars, comments, fileVars>>

WithPasswords(usr) ==
    [u \in DOMAIN usr |->
        [is_active |-> usr[u].is_active, email |-> usr[u].email, password_hash |-> 0]]

\* The tokens this server can have issued: those of the users, and the reset
\* tokens for the emails of users and for one email of nobody.
ResetTokens == {generate_password_reset_token(e) : e \in 1..(MaxUsers + 1)}
IssuedTokens == UNION {TokensOf(u) : u \in 1..MaxUsers} \cup ResetTokens

InitTokens ==
    /\ subs = SeedSubmissions
    /\ scan = NewestFirst(subs)
    /\ users = WithPasswords(WithEmails(SeedUsers))
    /\ userRoles = SeedUserRoles
    /\ ids = FirstIds(subs)
    /\ NoRequests

NextTokens ==
    \/ \E u \in DOMAIN users : login(u, TRUE)
    \/ \E e \in 1..(MaxUsers + 1) : forgot_password(e)
    \/ \E t \in IssuedTokens : me(<<t>>)
    \/ \E t \in IssuedTokens : refresh_token(t)
    \/ \E t \in IssuedTokens, h \in {1, 2} : reset_password(t, h)

SpecTokens == InitTokens /\ [][NextTokens]_vars

\* C23: verify_token accepts a token exactly when its type is the expected
\* one; GET /auth/me answers 401 to a refresh or reset token and 200 to an
\* access token; POST /auth/refresh answers 401 and issues nothing for an
\* access or reset token and issues tokens for a refresh token; POST
\* /auth/reset-password answers 400 and changes no user for an access or
\* refresh token.
C23_TokenTypes ==
    /\ [](\A t \in IssuedTokens, ty \in TokenTypes \cup {"password_reset"} :
            verify_token(t, ty) # <<>> <=> t.type = ty)
    /\ [][ LET r == reply'[1]
           IN /\ r.endpoint = "me" => (r.code = 200 <=> r.arg[1].type = "access")
              /\ r.endpoint = "me" /\ r.arg[1].type # "access" => r.code = 401
              /\ r.endpoint = "refresh_token" =>
                    IF r.arg.type = "refresh"
                    THEN r.code = 200 /\ {t.type : t \in r.body} = TokenTypes
                    ELSE r.code = 401 /\ r.body = {}
              /\ (r.endpoint = "reset_password" /\ r.arg.type # "password_reset") =>
                    (r.code = 400 /\ users' = users) ]_vars

\* A reset token changed a user's password, and afterwards an access token
\* sent to POST /auth/reset-password was refused.
C23_Witness ==
    /\ reply # <<>>
    /\ reply[1].endpoint = "reset_password"
    /\ reply[1].arg.type = "access"
    /\ reply[1].code = 400
    /\ \E u \in DOMAIN users : users[u].password_hash # 0

(* ------- SpecDemote: roles are changed between admin requests --------- *)
InitDemote == InitDeactivate

NextDemote ==
    \/ \E u \in DOMAIN users, b \in BOOLEAN : patch_user(AdminToken, u, <<>>, <<b>>)
    \/ \E u \in DOMAIN users : login(u, TRUE)
    \/ \E u \in DOMAIN users : \E t \in TokensOf(u) : me(<<t>>)
    \/ \E u \in DOMAIN users : \E t \in TokensOf(u) : list_users(<<t>>)

SpecDemote == InitDemote /\ [][NextDemote]_vars

\* C24: an admin-only request sent with an access token of an active user is
\* answered by the role stored for that user when the request is served, whatever
\* role the token names: 403 when the stored role is not admin, 200 when it is.
C24_StoredRoleDecides ==
    [][ LET r == reply'[1]
        IN (r.endpoint = "list_users" /\ r.arg[1].type = "access") =>
              LET stored == {m.role : m \in RolesOf(userRoles, r.arg[1].sub)}
              IN /\ "admin" \notin stored => r.code = 403
                 /\ "admin" \in stored => r.code = 200 ]_vars

(* ------------- SpecTTL: a TTLCache is set, read and cleared ------------- *)
\* TTLCache.clear
TTLCache_clear(data) == <<>>

CacheKeys == {"a", "b"}
CacheValues == {"v", "w"}
CacheTtls == {0, TickStep, ttl_seconds}

cache_set(key, value, ttl) ==
    /\ cache' = TTLCache_set(cache, key, value, ttl, now)
    /\ lastSet' = [k \in DOMAIN lastSet \cup {key} |->
                     IF k = key THEN [at |-> now, ttl |-> ttl, value |-> value]
                     ELSE lastSet[k]]
    /\ reply' = <<[endpoint |-> "set", arg |-> key, at |-> now, body |-> <<>>]>>
    /\ UNCHANGED <<subs, scan, users, userRoles, ids, now, calls, summary, roleVars, listVars,
                   comments, fileVars>>

cache_get(key) ==
    /\ cache' = TTLCache_get_data(cache, key, now)
    /\ reply' = <<[endpoint |-> "get", arg |-> key, at |-> now,
                   body |-> TTLCache_get(cache, key, now)]>>
    /\ UNCHANGED <<subs, scan, users, userRoles, ids, now, calls, summary, lastSet, roleVars,
                   listVars, comments, fileVars>>

cache_clear ==
    /\ cache' = TTLCache_clear(cache)
    /\ lastSet' = <<>>
    /\ reply' = <<[endpoint |-> "clear", arg |-> "", at |-> now, body |-> <<>>]>>
    /\ UNCHANGED <<subs, scan, users, userRoles, ids, now, calls, summary, roleVars, listVars,
                   comments, fileVars>>

InitTTL ==
    /\ subs = SeedSubmissions
    /\ scan = NewestFirst(subs)
    /\ users = SeedUsers
    /\ userRoles = SeedUserRoles
    /\ ids = FirstIds(subs)
    /\ NoRequests

NextTTL ==
    \/ \E k \in CacheKeys, v \in CacheValues, ttl \in CacheTtls : cache_set(k, v, ttl)
    \/ \E k \in CacheKeys : cache_get(k)
    \/ cache_clear
    \/ Tick

SpecTTL == InitTTL /\ [][NextTTL]_vars

\* C25: a get returns the value of the key's last set since the last clear
\* when the get is made no later than that set's time plus its ttl, and None
\* otherwise; after a get that found the entry expired the entry is gone; and
\* every entry the cache holds is the last set of its key.
C25_NeverExpired ==
    /\ \A k \in DOMAIN cache :
          /\ k \in DOMAIN lastSet
          /\ cache[k] = [expires_at |-> lastSet[k].at + lastSet[k].ttl,
                         value |-> lastSet[k].value]
    /\ (reply # <<>> /\ reply[1].endpoint = "get") =>
          LET r == reply[1]
              k == r.arg
          IN IF k \in DOMAIN lastSet /\ r.at <= lastSet[k].at + lastSet[k].ttl
             THEN r.body = <<lastSet[k].value>> /\ k \in DOMAIN cache
             ELSE r.body = <<>> /\ k \notin DOMAIN cache

\* A value set with a ttl was read at exactly the time it expires, and the
\* other key, overwritten before with a shorter ttl, had expired and was removed.
C25_Witness ==
    /\ reply # <<>>
    /\ reply[1].endpoint = "get"
    /\ reply[1].body # <<>>
    /\ reply[1].at = lastSet[reply[1].arg].at + lastSet[reply[1].arg].ttl
    /\ lastSet[reply[1].arg].ttl > 0
    /\ \E k \in DOMAIN lastSet : k \notin DOMAIN cache

(* --- SpecQueries: the summary's queries, with commits between them ----- *)
\* What summarize derives from the results of its first, second and sixth query.
summarize_counts(total, status_counts, public_count) ==
    [total_submissions |-> total,
     status_counts |-> status_counts,
     public_counts |-> [public |-> public_count, non_public |-> Max(0, total - public_count)],
     found_rate |-> IF total > 0 THEN Div(found_total(status_counts), total) ELSE Zero,
     found_alive_count |-> DictGet(status_counts, "found_alive", 0),
     found_dead_count |-> DictGet(status_counts, "found_dead", 0)]

IdleQueries == [pc |-> "idle", total |-> 0, status_counts |-> <<>>, result |-> <<>>]

\* select(func.count(Submission.id)): under READ COMMITTED each statement sees
\* what is committed when it runs.
query_total(c) ==
    /\ calls[c].pc = "idle"
    /\ calls' = [calls EXCEPT ![c].pc = "total", ![c].total = Cardinality(DOMAIN subs)]
    /\ UNCHANGED <<subs, scan, users, userRoles, ids, cache, now, summary, lastSet, roleVars,
                   listVars, commentVars, fileVars>>

\* select(Submission.status, func.count(Submission.id)).group_by(Submission.status)
query_status_counts(c) ==
    /\ calls[c].pc = "total"
    /\ calls' = [calls EXCEPT ![c].pc = "status",
                              ![c].status_counts = GroupCount(subs, "status")]
    /\ UNCHANGED <<subs, scan, users, userRoles, ids, cache, now, summary, lastSet, roleVars,
                   listVars, commentVars, fileVars>>

\* select(func.count(Submission.id)).where(Submission.status.in_(public_status)),
\* and the fields computed from the three results.
query_public_count(c) ==
    /\ calls[c].pc = "status"
    /\ LET public_count ==
               Cardinality({i \in DOMAIN subs : subs[i].status \in public_status})
       IN calls' = [calls EXCEPT ![c].pc = "done",
                       ![c].result = <<summarize_counts(calls[c].total, calls[c].status_counts,
                                                        public_count)>>]
    /\ UNCHANGED <<subs, scan, users, userRoles, ids, cache, now, summary, lastSet, roleVars,
                   listVars, commentVars, fileVars>>

QueryTables ==
    UNION {{[i \in 1..n |-> [status |-> st[i], images |-> SomeImages(<<>>),
                             user_id |-> MaxUsers, created_at |-> 0]] :
            st \in [1..n -> Statuses]} : n \in 0..2}

InitQueries ==
    /\ subs \in QueryTables
    /\ scan = NewestFirst(subs)
    /\ users = SeedUsers
    /\ userRoles = SeedUserRoles
    /\ ids = FirstIds(subs)
    /\ cache = <<>>
    /\ now = 0
    /\ calls = [c \in {1} |-> IdleQueries]
    /\ summary = <<>>
    /\ txns = [t \in 1..MaxTxns |-> IdleTxn]
    /\ assigned = [u \in 1..MaxUsers + 1 |-> "none"]
    /\ listing = <<>>
    /\ walk = NoWalk
    /\ comments = <<>>
    /\ reply = <<>>
    /\ files = <<>>
    /\ lastSet = <<>>

NextQueries ==
    \/ \E c \in DOMAIN calls : query_total(c)
    \/ \E c \in DOMAIN calls : query_status_counts(c)
    \/ \E c \in DOMAIN calls : query_public_count(c)
    \/ \E u \in DOMAIN users : CreateSubmission(u)
    \/ \E i \in DOMAIN subs, st \in Statuses : UpdateStatus(i, st)
    \/ \E i \in DOMAIN subs : DeleteSubmission(i)

SpecQueries == InitQueries /\ [][NextQueries]_vars

\* C26: a summary returned while other requests commit has 0 <= found_rate <= 1,
\* found_alive_count + found_dead_count <= public_counts.public, and
\* public_counts.public + public_counts.non_public = total_submissions.
C26_ConsistentSummary ==
    \A c \in DOMAIN calls :
        calls[c].pc = "done" =>
            LET r == calls[c].result[1]
            IN /\ 0 <= r.found_rate[1]
               /\ r.found_rate[1] <= r.found_rate[2]
               /\ r.found_alive_count + r.found_dead_count <= r.public_counts.public
               /\ r.public_counts.public + r.public_counts.non_public = r.total_submissions

(* ------- SpecCreate: anyone posts a submission with any upload --------- *)
\* The endpoint declares no status field: a "status" part of the form is not
\* bound to any parameter.
create_submission_form(credentials, images, status) == create_submission(credentials, images)

InitCreate ==
    /\ subs = <<>>
    /\ scan = NewestFirst(subs)
    /\ users \in {SeedUsers, [SeedUsers EXCEPT ![MaxUsers].is_active = FALSE]}
    /\ userRoles = SeedUserRoles
    /\ ids = FirstIds(subs)
    /\ NoRequests

NextCreate ==
    \E cr \in Callers, images \in Uploads \cup {[k \in 1..4 |-> "image/png"]},
       st \in {<<>>, <<"published">>} :
        create_submission_form(cr, images, st)

SpecCreate == InitCreate /\ [][NextCreate]_vars

UpdateTables ==
    {[i \in 1..2 |-> [status |-> st[i], images |-> SomeImages(<<1, 2, 3>>),
                      user_id |-> IF i = 1 THEN NullId ELSE MaxUsers, created_at |-> i]] :
     st \in [1..2 -> {"pending", "published"}]}

UpdateData ==
    [status : {<<>>, <<"published">>, <<"rejected">>}, images : {<<>>, <<<<>>>>, <<<<4, 5, 6>>>>}]

\* SubmissionService.update(id, data), committed.
RunUpdate(id, data) ==
    /\ subs' = SubmissionRepository_update(subs, id, data)
    /\ reply' = <<[endpoint |-> "SubmissionRepository.update", arg |-> id, body |-> data,
                   returned |-> SubmissionRepository_update_returns(subs, id, data)]>>
    /\ UNCHANGED <<scan, users, userRoles, ids, cacheVars, roleVars, listVars, comments, fileVars>>

InitUpdate ==
    /\ subs \in UpdateTables
    /\ scan = NewestFirst(subs)
    /\ users = SeedUsers
    /\ userRoles = SeedUserRoles
    /\ ids = FirstIds(subs)
    /\ NoRequests

NextUpdate == \E id \in 1..3, data \in UpdateData : RunUpdate(id, data)

SpecUpdate == InitUpdate /\ [][NextUpdate]_vars

\* C28: an update of a row that exists overwrites exactly the fields passed
\* with a value, keeps those passed as None, keeps id, user_id and created_at,
\* leaves every other row alone and returns the row; an update of an id that
\* does not exist returns None and changes nothing.
C28_PartialUpdate ==
    [][ LET r == reply'[1]
            id == r.arg
        IN IF id \notin DOMAIN subs THEN r.returned = <<>> /\ subs' = subs
           ELSE /\ DOMAIN subs' = DOMAIN subs
                /\ \A i \in DOMAIN subs \ {id} : subs'[i] = subs[i]
                /\ subs'[id].status = IF r.body.status = <<>> THEN subs[id].status
                                      ELSE r.body.status[1]
                /\ subs'[id].images = IF r.body.images = <<>> THEN subs[id].images
                                      ELSE <<r.body.images[1]>>
                /\ subs'[id].user_id = subs[id].user_id
                /\ subs'[id].created_at = subs[id].created_at
                /\ r.returned = <<subs'[id]>> ]_vars

\* An update that passed images and no status replaced the images of a row
\* whose status an earlier update had set to rejected, and the status stayed.
C28_Witness ==
    /\ reply # <<>>
    /\ reply[1].arg \in DOMAIN subs
    /\ reply[1].body = [status |-> <<>>, images |-> <<<<4, 5, 6>>>>]
    /\ subs[reply[1].arg].status = "rejected"
    /\ subs[reply[1].arg].images = SomeImages(<<4, 5, 6>>)

(* ------ SpecOutcomes: an admin approves and rejects any comment id ------ *)
InitOutcomes == InitComments

NextOutcomes ==
    \/ \E s \in DOMAIN subs : create_comment(UserToken, s, <<>>)
    \/ \E i \in 1..(MaxComments + 1) : approve_comment(AdminToken, i)
    \/ \E i \in 1..(MaxComments + 1), reason \in Reasons : reject_comment(AdminToken, i, reason)

SpecOutcomes == InitOutcomes /\ [][NextOutcomes]_vars

\* What a moderation of comment i must have done in the step.
Outcome(i, new_status, reason) ==
    IF i \notin DOMAIN comments
    THEN reply'[1].code = 404 /\ comments' = comments
    ELSE /\ reply'[1].code = 200
         /\ DOMAIN comments' = DOMAIN comments
         /\ comments'[i].status = new_status
         /\ comments'[i].rejection_reason = reason
         /\ \A j \in DOMAIN comments \ {i} : comments'[j] = comments[j]

\* C29: approve leaves the comment approved with no rejection reason, reject
\* leaves it rejected with the reason supplied (possibly none), whatever its
\* status was before; a comment has a rejection reason only while its status
\* is rejected; and moderating an id that does not exist answers 404 and
\* changes no comment.
C29_ModerationOutcomes ==
    /\ [](\A i \in DOMAIN comments :
            comments[i].rejection_reason # <<>> => comments[i].status = "rejected")
    /\ [][\A i \in 1..(MaxComments + 1) :
            /\ approve_comment(AdminToken, i) => Outcome(i, "approved", <<>>)
            /\ \A reason \in Reasons :
                  reject_comment(AdminToken, i, reason) => Outcome(i, "rejected", reason)]_vars

\* One comment is rejected with a reason, another is approved with none, and
\* the last request, a reject of an id that does not exist, was answered 404.
C29_Witness ==
    /\ reply # <<>>
    /\ reply[1].endpoint = "reject_comment"
    /\ reply[1].code = 404
    /\ reply[1].arg \notin DOMAIN comments
    /\ \E i, j \in DOMAIN comments :
          /\ comments[i].status = "rejected" /\ comments[i].rejection_reason = <<"spam">>
          /\ comments[j].status = "approved" /\ comments[j].rejection_reason = <<>>

(* ------------- SpecAdminComments: GET /comments/admin ------------------ *)
CommentStatuses == {"pending", "approved", "rejected"}

\* The query parameter status: absent, empty, a status, or another word.
StatusFilters == {<<>>, <<"">>, <<"spam">>} \cup {<<st>> : st \in CommentStatuses}

\* Python's truth value of an Optional[str].
truthy(value) == value # <<>> /\ value[1] # ""

\* The module the router imports as status.
fastapi_status == [kind |-> "module", HTTP_400_BAD_REQUEST |-> 400]

\* What the name status denotes inside admin_comments: the parameter of that
\* name hides the imported module.
admin_comments_status(param) == [kind |-> "str", value |-> param]

\* raise HTTPException(status_code=obj.HTTP_400_BAD_REQUEST): on anything but
\* the module the attribute access raises AttributeError before the
\* HTTPException is built, and the server answers 500.
raise_bad_request(obj) == IF obj.kind = "module" THEN obj.HTTP_400_BAD_REQUEST ELSE 500

\* CommentRepository.list_admin: the ids selected, ORDER BY created_at DESC;
\* created_at is the database clock at insert and grows with the id.
CommentRepository_list_admin(table, status) ==
    LET sel == {i \in DOMAIN table : truthy(status) => table[i].status = status[1]}
    IN CHOOSE q \in [1..Cardinality(sel) -> sel] :
          \A j, k \in 1..Cardinality(sel) : j < k => q[j] > q[k]

admin_comments_endpoint == require_roles({"admin"}, Callable([db |-> Depends_get_db]))

\* GET /comments/admin?status=
admin_comments(credentials, status) ==
    /\ LET solved == solve_dependencies(admin_comments_endpoint, credentials, users, userRoles)
       IN IF solved.code # 200
          THEN reply' = Response("admin_comments", credentials, status, solved.code, <<>>)
          ELSE IF truthy(status) /\ status[1] \notin CommentStatuses
          THEN reply' = Response("admin_comments", credentials, status,
                                 raise_bad_request(admin_comments_status(status)), <<>>)
          ELSE reply' = Response("admin_comments", credentials, status, 200,
                                 CommentRepository_list_admin(comments, status))
    /\ UNCHANGED <<subs, scan, users, userRoles, ids, cacheVars, roleVars, listVars, comments, fileVars>>

InitAdminComments == InitComments

NextAdminComments ==
    \/ \E s \in DOMAIN subs : create_comment(UserToken, s, <<>>)
    \/ \E i \in 1..MaxComments : approve_comment(AdminToken, i)
    \/ \E i \in 1..MaxComments, reason \in Reasons : reject_comment(AdminToken, i, reason)
    \/ \E status \in StatusFilters : admin_comments(AdminToken, status)

SpecAdminComments == InitAdminComments /\ [][NextAdminComments]_vars

\* C30: for an admin, GET /comments/admin with a status filter outside
\* {pending, approved, rejected} is answered 400 with no comments; with a valid
\* filter it returns exactly the comments of that status, and with no filter
\* (or an empty one) all comments, newest first.
C30_AdminListing ==
    [][ reply'[1].endpoint = "admin_comments" =>
          LET r == reply'[1]
              shown == {r.body[k] : k \in 1..Len(r.body)}
          IN /\ "admin" \in r.who.roles
             /\ \A j, k \in 1..Len(r.body) : j < k => r.body[j] > r.body[k]
             /\ IF ~truthy(r.arg)
                THEN r.code = 200 /\ shown = DOMAIN comments
                ELSE IF r.arg[1] \in CommentStatuses
                THEN r.code = 200 /\ shown = {i \in DOMAIN comments : comments[i].status = r.arg[1]}
                ELSE r.code = 400 /\ r.body = <<>> ]_vars

Init == InitSummary
Next == NextSummary
Spec == Init /\ [][Next]_vars
====
